---- MODULE Spec2Model ----
(***************************************************************************)
(* A model of locations.api.v3.drl.querybuilder.QueryBuilder: the filter   *)
(* expression evaluator, the order-by translator and the get_query_set     *)
(* facade with its error accumulator.                                      *)
(*                                                                         *)
(* Python values (decoded JSON and the values the builder computes from    *)
(* them) are records of one shape, so that any two of them can be compared: *)
(*   t = "null" | "bool" | "num" | "str" | "list" | "dict" | "datetime"     *)
(*   s = the text of a str (or of a datetime), n = the number (1/0 for a    *)
(*   bool), l = the elements of a list (for a dict: key, value, key, ...). *)
(* An exception is the name of its type and its message, in the words of   *)
(* Python 3; the properties rest on which exception it is, not on the text. *)
(***************************************************************************)
EXTENDS Integers, Sequences, FiniteSets, TLC

VARIABLES model_name, primary_key, errors, call, before,
          routes, urlpatterns, response, registered, served, view, threads

vars == <<model_name, primary_key, errors, call, before,
          routes, urlpatterns, response, registered, served, view, threads>>

(* the variables of the query builder, of the route builder, of the views  *)
(* and of the threads sharing a query builder                              *)
building == <<model_name, primary_key, errors, call, before>>
routing == <<routes, urlpatterns, response, registered, served>>
viewing == <<view>>
sharing == <<threads>>

----------------------------------------------------------------------------
(* Python values *)

PyNone == [t |-> "null", s |-> "", n |-> 0, l |-> <<>>]
PyStr(x) == [t |-> "str", s |-> x, n |-> 0, l |-> <<>>]
PyNum(i) == [t |-> "num", s |-> "", n |-> i, l |-> <<>>]
PyBool(b) == [t |-> "bool", s |-> "", n |-> IF b THEN 1 ELSE 0, l |-> <<>>]
PyList(xs) == [t |-> "list", s |-> "", n |-> 0, l |-> xs]
PyDict(kvs) == [t |-> "dict", s |-> "", n |-> 0, l |-> kvs]
PyDatetime(x) == [t |-> "datetime", s |-> x, n |-> 0, l |-> <<>>]

(* bool(v) *)
Truthy(v) ==
  CASE v.t = "null" -> FALSE
    [] v.t \in {"bool", "num"} -> v.n # 0
    [] v.t = "str" -> v.s # ""
    [] v.t \in {"list", "dict"} -> v.l # <<>>
    [] OTHER -> TRUE

(* hash(v) is defined: lists and dicts are unhashable *)
Hashable(v) == v.t \notin {"list", "dict"}

Digit(d) ==
  CASE d = 0 -> "0" [] d = 1 -> "1" [] d = 2 -> "2" [] d = 3 -> "3"
    [] d = 4 -> "4" [] d = 5 -> "5" [] d = 6 -> "6" [] d = 7 -> "7"
    [] d = 8 -> "8" [] d = 9 -> "9"

RECURSIVE NatStr(_)
NatStr(i) == IF i < 10 THEN Digit(i) ELSE NatStr(i \div 10) \o Digit(i % 10)

IntStr(i) == IF i < 0 THEN "-" \o NatStr(0 - i) ELSE NatStr(i)

(* The characters of the strings that the inputs put where Python indexes, *)
(* iterates or unpacks a str (x[0], for c in x, star-args).                *)
Chars(x) ==
  IF Len(x) = 0 THEN <<>>
  ELSE IF Len(x) = 1 THEN <<x>>
  ELSE CASE x = "not" -> <<"n", "o", "t">>
         [] x = "uuid" -> <<"u", "u", "i", "d">>
         [] x = "abcde" -> <<"a", "b", "c", "d", "e">>
         [] x = "Package" -> <<"P", "a", "c", "k", "a", "g", "e">>

(* str.lower() on the direction tokens of the inputs *)
Lower(x) ==
  CASE x = "DESC" -> "desc"
    [] x = "Desc" -> "desc"
    [] x = "ASC" -> "asc"
    [] x = "Descending" -> "descending"
    [] x = "Ascending" -> "ascending"
    [] OTHER -> x

RECURSIVE PyRepr(_)
RECURSIVE JoinRepr(_, _)
(* ", ".join(repr(x) for x in xs[i:]) *)
JoinRepr(xs, i) ==
  IF i > Len(xs) THEN ""
  ELSE IF i = Len(xs) THEN PyRepr(xs[i])
  ELSE PyRepr(xs[i]) \o ", " \o JoinRepr(xs, i + 1)

RECURSIVE JoinItems(_, _)
(* ", ".join("%r: %r" % (k, v)) over the key, value, ... list of a dict *)
JoinItems(kvs, i) ==
  IF i + 1 > Len(kvs) THEN ""
  ELSE PyRepr(kvs[i]) \o ": " \o PyRepr(kvs[i + 1])
       \o (IF i + 2 < Len(kvs) THEN ", " \o JoinItems(kvs, i + 2) ELSE "")

(* repr(v) *)
PyRepr(v) ==
  CASE v.t = "null" -> "None"
    [] v.t = "bool" -> IF v.n = 1 THEN "True" ELSE "False"
    [] v.t = "num" -> IntStr(v.n)
    [] v.t = "str" -> "'" \o v.s \o "'"
    [] v.t = "list" -> "[" \o JoinRepr(v.l, 1) \o "]"
    [] v.t = "dict" -> "{" \o JoinItems(v.l, 1) \o "}"
    [] v.t = "datetime" -> "datetime(" \o v.s \o ")"

(* str(v), also what '%s' % v and '{}'.format(v) give *)
PyToStr(v) == IF v.t = "str" THEN v.s ELSE PyRepr(v)

----------------------------------------------------------------------------
(* Exceptions: the type's name and str(exc); NoExc when nothing was raised *)

Exc(type, msg) == [type |-> type, msg |-> msg]
NoExc == Exc("", "")

(* type(v).__name__ *)
TypeName(v) ==
  CASE v.t = "null" -> "NoneType"
    [] v.t = "bool" -> "bool"
    [] v.t = "num" -> "int"
    [] v.t = "str" -> "str"
    [] v.t = "list" -> "list"
    [] v.t = "dict" -> "dict"
    [] v.t = "datetime" -> "datetime.datetime"

Unhashable(v) == Exc("TypeError", "unhashable type: '" \o TypeName(v) \o "'")

(* v[i] for a 0-based i: [x |-> exception, v |-> the element] *)
Subscript(v, i) ==
  CASE v.t = "list" ->
         IF i < Len(v.l) THEN [x |-> NoExc, v |-> v.l[i + 1]]
         ELSE [x |-> Exc("IndexError", "list index out of range"), v |-> PyNone]
    [] v.t = "str" ->
         IF i < Len(Chars(v.s)) THEN [x |-> NoExc, v |-> PyStr(Chars(v.s)[i + 1])]
         ELSE [x |-> Exc("IndexError", "string index out of range"), v |-> PyNone]
    [] v.t = "dict" -> [x |-> Exc("KeyError", IntStr(i)), v |-> PyNone]
    [] OTHER ->
         [x |-> Exc("TypeError", "'" \o TypeName(v) \o "' object is not subscriptable"),
          v |-> PyNone]

(* list(v), as iteration and argument unpacking see v:                     *)
(* [x |-> exception, l |-> the items]                                      *)
Iterate(v) ==
  CASE v.t = "list" -> [x |-> NoExc, l |-> v.l]
    [] v.t = "str" -> [x |-> NoExc, l |-> [i \in 1..Len(Chars(v.s)) |-> PyStr(Chars(v.s)[i])]]
    [] v.t = "dict" ->
         [x |-> NoExc, l |-> [i \in 1..(Len(v.l) \div 2) |-> v.l[2 * i - 1]]]
    [] OTHER ->
         [x |-> Exc("TypeError", "'" \o TypeName(v) \o "' object is not iterable"),
          l |-> <<>>]

----------------------------------------------------------------------------
(* The data structures of the class *)

Plain == [foreign_model |-> "", type |-> "", value_converter |-> ""]
Foreign(m, ty) == [foreign_model |-> m, type |-> ty, value_converter |-> ""]
Converted(c) == [foreign_model |-> "", type |-> "", value_converter |-> c]

schema ==
  [Package |->
     [uuid |-> Plain,
      description |-> Plain,
      origin_pipeline |-> Foreign("Pipeline", "scalar"),
      current_location |-> Foreign("Location", "scalar"),
      current_path |-> Plain,
      pointer_file_location |-> Foreign("Location", "scalar"),
      pointer_file_path |-> Plain,
      size |-> Plain,
      encryption_key_fingerprint |-> Plain,
      replicated_package |-> Foreign("Package", "scalar"),
      package_type |-> Plain,
      replicas |-> Foreign("Package", "collection"),
      related_packages |-> Foreign("Package", "collection"),
      status |-> Plain,
      misc_attributes |-> Plain],
   Location |->
     [uuid |-> Plain,
      space |-> Foreign("Space", "scalar"),
      purpose |-> Plain,
      pipeline |-> Foreign("Pipeline", "collection"),
      relative_path |-> Plain,
      description |-> Plain,
      quota |-> Plain,
      used |-> Plain,
      enabled |-> Plain,
      replicators |-> Foreign("Location", "collection"),
      masters |-> Foreign("Location", "collection")],
   Space |->
     [uuid |-> Plain,
      access_protocol |-> Plain,
      size |-> Plain,
      used |-> Plain,
      path |-> Plain,
      staging_path |-> Plain,
      verified |-> Plain,
      last_verified |-> Converted("_get_datetime_value")],
   Pipeline |->
     [uuid |-> Plain,
      description |-> Plain,
      remote_name |-> Plain,
      api_username |-> Plain,
      api_key |-> Plain,
      enabled |-> Plain,
      location_set |-> Foreign("Location", "collection")]]

(* the relations table with no alias for 'like' *)
relations_like_unaliased ==
  [r \in {"exact", "=", "ne", "!=", "contains", "like", "regex", "regexp",
          "lt", "<", "gt", ">", "lte", "<=", "gte", ">=", "in"} |->
     CASE r = "=" -> "exact" [] r = "!=" -> "ne"
       [] r = "regexp" -> "regex" [] r = "<" -> "lt" [] r = ">" -> "gt"
       [] r = "<=" -> "lte" [] r = ">=" -> "gte" [] OTHER -> ""]

(* relation name -> its alias, "" when the entry has no 'alias' key *)
relations ==
  [r \in {"exact", "=", "ne", "!=", "contains", "like", "regex", "regexp",
          "lt", "<", "gt", ">", "lte", "<=", "gte", ">=", "in"} |->
     CASE r = "=" -> "exact" [] r = "!=" -> "ne" [] r = "like" -> "contains"
       [] r = "regexp" -> "regex" [] r = "<" -> "lt" [] r = ">" -> "gt"
       [] r = "<=" -> "lte" [] r = ">=" -> "gte" [] OTHER -> ""]

(* the table of a foreign attribute with '!=' resolving as it does for an  *)
(* attribute of the model itself                                           *)
foreign_model_relations_ne ==
  [r \in {"isnull", "=", "!="} |->
     CASE r = "isnull" -> "" [] r = "=" -> "isnull" [] OTHER -> "ne"]

foreign_model_relations ==
  [r \in {"isnull", "=", "!="} |-> IF r = "isnull" THEN "" ELSE "isnull"]

order_by_directions ==
  [d \in {"", "-", "desc", "descending", "asc", "ascending"} |->
     CASE d \in {"desc", "descending"} -> "-" [] OTHER -> ""]

(* the entries of order_by_directions that have an 'alias' key *)
DirectionHasAlias(d) == d \in {"desc", "descending", "asc", "ascending"}

----------------------------------------------------------------------------
(* The error accumulator: a function from the keys to the messages *)

NoErrors == <<>>

(* self.errors[str(key)] = msg: the last write of a key wins *)
AddToErrors(e, key, msg) == (PyToStr(key) :> msg) @@ e

----------------------------------------------------------------------------
(* Model and attribute getters. Each returns the exception it lets go      *)
(* (x, NoExc when none), its value (v) and the error map it leaves (e).     *)
(* A step that uses the result of a call more than once takes it as a      *)
(* parameter: Name(.., r) is the rest of the method once the call has      *)
(* returned r.                                                             *)

InSchema(model) == model.t = "str" /\ model.s \in DOMAIN schema

GetModelName(model, e) ==
  IF ~Hashable(model) THEN [x |-> Unhashable(model), v |-> PyNone, e |-> e]
  ELSE IF InSchema(model) THEN [x |-> NoExc, v |-> model, e |-> e]
  ELSE [x |-> NoExc, v |-> model,
        e |-> AddToErrors(e, model,
                "Searching on the " \o PyToStr(model) \o " model is not permitted")]

ReportAttribute(e, key) ==
  AddToErrors(e, PyStr(key), "Searching on " \o key \o " is not permitted")

(* found = the attribute dict is not None, d = the attribute dict,         *)
(* v = the attribute name as given                                         *)
GetAttributeDict(attribute, model, report_error, e) ==
  IF ~Hashable(model) \/ ~Hashable(attribute)
  THEN [x |-> Unhashable(IF ~Hashable(model) THEN model ELSE attribute),
        found |-> FALSE, d |-> Plain, v |-> PyNone, e |-> e]
  ELSE IF InSchema(model) /\ attribute.t = "str"
          /\ attribute.s \in DOMAIN schema[model.s]
    THEN [x |-> NoExc, found |-> TRUE, d |-> schema[model.s][attribute.s],
          v |-> attribute, e |-> e]
  ELSE [x |-> NoExc, found |-> FALSE, d |-> Plain, v |-> attribute,
        e |-> IF report_error
              THEN ReportAttribute(e, PyToStr(model) \o "." \o PyToStr(attribute))
              ELSE e]

(* _get_attribute_name calling the lookup without report_error *)
GetAttributeNameUnreported(attribute, model, e) ==
  GetAttributeDict(attribute, model, FALSE, e)

(* _get_attribute_name: the lookup with report_error, v its return value *)
GetAttributeName(attribute, model, e) == GetAttributeDict(attribute, model, TRUE, e)

ReportNotManyToOne(e, model, attribute) ==
  AddToErrors(e, PyStr(model \o "." \o attribute),
    "The " \o attribute \o " attribute of the " \o model
    \o " model does not represent a many-to-one relation.")

(* _get_attribute_model_name once _get_attribute_dict has returned ad *)
AttributeModelNameOf(attribute, model, e, ad) ==
  IF ad.x # NoExc THEN [x |-> ad.x, v |-> PyNone, e |-> e]
  ELSE IF ~ad.found
    THEN [x |-> Exc("TypeError", "'NoneType' object is not subscriptable"),
          v |-> PyNone, e |-> e]
  ELSE IF ad.d.foreign_model = ""
    THEN [x |-> NoExc, v |-> PyNone,
          e |-> ReportNotManyToOne(e, PyToStr(model), PyToStr(attribute))]
  ELSE [x |-> NoExc, v |-> PyStr(ad.d.foreign_model), e |-> e]

GetAttributeModelName(attribute, model, e) ==
  AttributeModelNameOf(attribute, model, e,
                       GetAttributeDict(attribute, model, FALSE, e))

----------------------------------------------------------------------------
(* Relation getters *)

(* _get_attribute_relations once _get_attribute_dict has returned ad:      *)
(* which table applies, "none" when the attribute dict is None             *)
AttributeRelationsOf(ad) ==
  IF ad.x # NoExc THEN [x |-> ad.x, table |-> "none"]
  ELSE IF ~ad.found THEN [x |-> NoExc, table |-> "none"]
  ELSE IF ad.d.foreign_model # "" THEN [x |-> NoExc, table |-> "foreign"]
  ELSE [x |-> NoExc, table |-> "general"]

GetAttributeRelations(attribute, model) ==
  AttributeRelationsOf(GetAttributeDict(attribute, model, FALSE, NoErrors))

(* _get_attribute_relations returning self.relations for every attribute *)
RelationTableGeneral(table) == relations

RelationTable(table) ==
  IF table = "foreign" THEN foreign_model_relations ELSE relations

ReportRelation(e, key, relation, owner) ==
  AddToErrors(e, PyStr(key),
              "The relation " \o relation \o " is not permitted for " \o owner)

(* _get_relation_dict once _get_attribute_relations has returned ar:       *)
(* found = the relation dict is not None, alias = its 'alias' ("" if none), *)
(* v = the relation name as given                                          *)
RelationDictIn(relation, owner, report_error, e, ar) ==
  IF ar.x # NoExc
  THEN [x |-> ar.x, found |-> FALSE, alias |-> "", v |-> relation, e |-> e]
  ELSE IF ar.table # "none" /\ ~Hashable(relation)
    THEN [x |-> Unhashable(relation), found |-> FALSE, alias |-> "",
          v |-> relation, e |-> e]
  ELSE IF ar.table # "none" /\ relation.t = "str"
          /\ relation.s \in DOMAIN RelationTable(ar.table)
    THEN [x |-> NoExc, found |-> TRUE,
          alias |-> RelationTable(ar.table)[relation.s], v |-> relation, e |-> e]
  ELSE [x |-> NoExc, found |-> FALSE, alias |-> "", v |-> relation,
        e |-> IF report_error
              THEN ReportRelation(e, owner \o "." \o PyToStr(relation),
                                  PyToStr(relation), owner)
              ELSE e]

GetRelationDict(relation, model, attribute, report_error, e) ==
  RelationDictIn(relation, PyToStr(model) \o "." \o PyToStr(attribute),
                 report_error, e, GetAttributeRelations(attribute, model))

(* _get_relation_name returning the relation as given, alias or not *)
RelationNameAsGiven(rd) ==
  IF rd.x # NoExc \/ ~rd.found THEN [x |-> rd.x, v |-> PyNone, e |-> rd.e]
  ELSE [x |-> NoExc, v |-> rd.v, e |-> rd.e]

(* _get_relation_name once _get_relation_dict has returned rd *)
RelationNameOf(rd) ==
  IF rd.x # NoExc \/ ~rd.found THEN [x |-> rd.x, v |-> PyNone, e |-> rd.e]
  ELSE [x |-> NoExc, v |-> IF rd.alias # "" THEN PyStr(rd.alias) ELSE rd.v,
        e |-> rd.e]

GetRelationName(relation, model, attribute, e) ==
  RelationNameOf(GetRelationDict(relation, model, attribute, TRUE, e))

----------------------------------------------------------------------------
(* Value getters *)

(* utils.normalize: canonical decomposition (NFD) of a string; of the      *)
(* strings of the inputs only the precomposed one changes.                 *)
UtilsNormalize(x) == IF x = "caf(U+00E9)" THEN "cafe(U+0301)" ELSE x

NormalizeIfString(v) == IF v.t = "str" THEN PyStr(UtilsNormalize(v.s)) ELSE v

Normalize(v) ==
  IF v.t = "list"
  THEN PyList([i \in 1..Len(v.l) |-> NormalizeIfString(v.l[i])])
  ELSE NormalizeIfString(v)

(* utils.datetime_string2datetime: the datetime of an ISO 8601 string,     *)
(* None for anything else.                                                 *)
IsoDatetimes == {"2018-01-01T00:00:00"}

DatetimeString2Datetime(v) ==
  IF v.t = "str" /\ v.s \in IsoDatetimes THEN PyDatetime(v.s) ELSE PyNone

(* _get_datetime_value returning None for a string that is no datetime    *)
(* without recording anything                                              *)
GetDatetimeValueUnrecorded(v, e) ==
  IF v = PyNone THEN [v |-> v, e |-> e]
  ELSE [v |-> DatetimeString2Datetime(v), e |-> e]

GetDatetimeValue(v, e) ==
  IF v = PyNone THEN [v |-> v, e |-> e]
  ELSE IF DatetimeString2Datetime(v) = PyNone
    THEN [v |-> PyNone,
          e |-> AddToErrors(e, PyStr("datetime " \o PyToStr(v)),
                  "Datetime search parameters must be valid ISO 8601 datetime strings.")]
  ELSE [v |-> DatetimeString2Datetime(v), e |-> e]

(* _get_value_converter once _get_attribute_dict has returned ad: the     *)
(* name of the converter method, "" when there is none                     *)
GetValueConverter(ad) == IF ad.found THEN ad.d.value_converter ELSE ""

ConvertAppend(acc, c) == [v |-> PyList(Append(acc.v.l, c.v)), e |-> c.e]

RECURSIVE ConvertEach(_, _, _)
(* [value_converter(li) for li in value]: acc holds the list so far and    *)
(* the error map, i is the next element                                    *)
ConvertEach(xs, i, acc) ==
  IF i > Len(xs) THEN acc
  ELSE ConvertEach(xs, i + 1, ConvertAppend(acc, GetDatetimeValue(xs[i], acc.e)))

(* the value the converter named gives, "" naming none *)
Convert(converter, normal, e) ==
  IF converter = "" THEN [v |-> normal, e |-> e]
  ELSE IF normal.t = "list" THEN ConvertEach(normal.l, 1, [v |-> PyList(<<>>), e |-> e])
  ELSE GetDatetimeValue(normal, e)

(* the end of _get_value without the null test *)
ForeignValueAsConverted(relation, ad, c) ==
  IF ~ad.found
  THEN [x |-> Exc("AttributeError", "'NoneType' object has no attribute 'get'"),
        v |-> PyNone, e |-> c.e]
  ELSE [x |-> NoExc, v |-> c.v, e |-> c.e]

(* the end of _get_value: the null test of a foreign attribute, ad being   *)
(* the attribute dict and c the converted value                            *)
ForeignNullValue(relation, ad, c) ==
  IF ~ad.found
  THEN [x |-> Exc("AttributeError", "'NoneType' object has no attribute 'get'"),
        v |-> PyNone, e |-> c.e]
  ELSE IF ad.d.foreign_model # "" /\ Truthy(relation) /\ c.v = PyNone
    THEN [x |-> NoExc,
          v |-> IF relation = PyStr("=") THEN PyBool(TRUE)
                ELSE IF relation = PyStr("!=") THEN PyBool(FALSE)
                ELSE c.v,
          e |-> c.e]
  ELSE [x |-> NoExc, v |-> c.v, e |-> c.e]

(* _get_value once _get_attribute_dict has returned ad *)
ValueOf(value, relation, e, ad) ==
  IF ad.x # NoExc THEN [x |-> ad.x, v |-> PyNone, e |-> e]
  ELSE ForeignNullValue(relation, ad,
                        Convert(GetValueConverter(ad), Normalize(value), e))

GetValue(value, model, attribute, relation, e) ==
  ValueOf(value, relation, e, GetAttributeDict(attribute, model, FALSE, NoErrors))

----------------------------------------------------------------------------
(* Q objects (django.db.models.Q). A node has a connector, a negated flag   *)
(* and children; a child is a (key, value) leaf or a node. NoQ stands for   *)
(* Python's None where a Q is expected.                                    *)

QLeaf(key, val) ==
  [kind |-> "leaf", key |-> key, val |-> val, conn |-> "", neg |-> FALSE, ch |-> <<>>]
QNode(conn, neg, ch) ==
  [kind |-> "Q", key |-> "", val |-> PyNone, conn |-> conn, neg |-> neg, ch |-> ch]
NoQ == [kind |-> "None", key |-> "", val |-> PyNone, conn |-> "", neg |-> FALSE, ch |-> <<>>]

(* Node.add(data, conn_type) on a node whose connector is conn_type *)
QAdd(node, data, conn) ==
  IF data.kind = "Q" /\ ~data.neg /\ (data.conn = conn \/ Len(data.ch) = 1)
  THEN QNode(node.conn, node.neg, node.ch \o data.ch)
  ELSE QNode(node.conn, node.neg, Append(node.ch, data))

(* operator.and_(a, b) and operator.or_(a, b): Q._combine *)
QCombine(a, b, conn) ==
  IF a.kind # "Q"
  THEN [x |-> Exc("TypeError",
                  "unsupported operand type(s) for "
                  \o (IF conn = "AND" THEN "&" ELSE "|") \o ": 'NoneType' and '"
                  \o (IF b.kind = "Q" THEN "Q" ELSE "NoneType") \o "'"),
        q |-> NoQ]
  ELSE IF b.kind # "Q" THEN [x |-> Exc("TypeError", "None"), q |-> NoQ]
  ELSE [x |-> NoExc, q |-> QAdd(QAdd(QNode(conn, FALSE, <<>>), a, conn), b, conn)]

QNegate(node) == QNode(node.conn, TRUE, node.ch)

(* ~a: Q.__invert__ *)
QInvert(a) ==
  IF a.kind # "Q"
  THEN [x |-> Exc("TypeError", "bad operand type for unary ~: 'NoneType'"), q |-> NoQ]
  ELSE [x |-> NoExc, q |-> QNegate(QAdd(QNode("AND", FALSE, <<>>), a, "AND"))]

RECURSIVE QReduce(_, _, _, _)
(* functools.reduce(op, qs) of a non-empty qs: acc holds the value so far  *)
(* (or the exception op raised), i is the next element                     *)
QReduce(acc, qs, i, conn) ==
  IF i > Len(qs) \/ acc.x # NoExc THEN acc
  ELSE QReduce(QCombine(acc.q, qs[i], conn), qs, i + 1, conn)

GetQExpression(attribute_name, relation_name, value) ==
  QNode("AND", FALSE,
        <<QLeaf(PyToStr(attribute_name) \o "__" \o PyToStr(relation_name), value)>>)

----------------------------------------------------------------------------
(* Filter expression getters. A result is [x |-> the exception let go,     *)
(* q |-> the Q returned, e |-> the error map left].                        *)

Raise(x, e) == [x |-> x, q |-> NoQ, e |-> e]

TupleIndexError == Exc("IndexError", "tuple index out of range")

(* the last step of _get_simple_Q_expression: the Q, v being what          *)
(* _get_value returned                                                     *)
SimpleQValue(path, relation_name, v) ==
  IF v.x # NoExc THEN Raise(v.x, v.e)
  ELSE [x |-> NoExc, q |-> GetQExpression(path, relation_name, v.v), e |-> v.e]

(* from the return of _get_relation_name (r) on; has_value = args holds    *)
(* the value element                                                       *)
SimpleQRelation(has_value, value, relation, model, attribute, path, r) ==
  IF r.x # NoExc THEN Raise(r.x, r.e)
  ELSE IF ~has_value THEN Raise(TupleIndexError, r.e)
  ELSE SimpleQValue(path, r.v, GetValue(value, model, attribute, relation, r.e))

(* the 5-element form from the second _get_attribute_name (ama) on *)
SimpleQHopAttribute(args, attribute, attribute_model, ama) ==
  IF ama.x # NoExc THEN Raise(ama.x, ama.e)
  ELSE IF Len(args) < 4 THEN Raise(TupleIndexError, ama.e)
  ELSE SimpleQRelation(Len(args) >= 5,
                       IF Len(args) >= 5 THEN args[5] ELSE PyNone,
                       args[4], attribute_model, ama.v,
                       PyStr(PyToStr(attribute) \o "__" \o PyToStr(ama.v)),
                       GetRelationName(args[4], attribute_model, ama.v, ama.e))

(* the 5-element form from the return of _get_attribute_model_name (am) on *)
SimpleQHop(args, attribute, am) ==
  IF am.x # NoExc THEN Raise(am.x, am.e)
  ELSE IF Len(args) < 3 THEN Raise(TupleIndexError, am.e)
  ELSE SimpleQHopAttribute(args, attribute, am.v,
                           GetAttributeName(args[3], am.v, am.e))

(* from the return of the first _get_attribute_name (a) on *)
SimpleQAttribute(args, model, a) ==
  IF a.x # NoExc THEN Raise(a.x, a.e)
  ELSE IF Len(args) = 4
    THEN SimpleQRelation(TRUE, args[4], args[3], model, a.v, a.v,
                         GetRelationName(args[3], model, a.v, a.e))
  ELSE SimpleQHop(args, a.v, GetAttributeModelName(a.v, model, a.e))

(* from the return of _get_model_name (m) on *)
SimpleQModel(args, m) ==
  IF m.x # NoExc THEN Raise(m.x, m.e)
  ELSE IF Len(args) < 2 THEN Raise(TupleIndexError, m.e)
  ELSE SimpleQAttribute(args, m.v, GetAttributeName(args[2], m.v, m.e))

(* _get_simple_Q_expression with the arguments args *)
GetSimpleQExpression(args, e) ==
  IF Len(args) < 1 THEN Raise(TupleIndexError, e)
  ELSE SimpleQModel(args, GetModelName(args[1], e))

(* the exception types the except clause of _python2queryexpr names *)
CaughtTypes == {"TypeError", "IndexError", "AttributeError"}

(* the except clause recording the exception alone, without the           *)
(* 'Malformed query error' entry                                           *)
ExceptUnmarked(r) ==
  IF r.x.type \in CaughtTypes
  THEN [x |-> NoExc, q |-> NoQ,
        e |-> AddToErrors(r.e, PyStr("<class '" \o r.x.type \o "'>"), r.x.msg)]
  ELSE r

(* the try statement of _python2queryexpr, r being the result of its body: *)
(* a caught exception is recorded and None returned, any other exception   *)
(* goes on to the caller                                                   *)
Except(r) ==
  IF r.x.type \in CaughtTypes
  THEN [x |-> NoExc, q |-> NoQ,
        e |-> AddToErrors(
                AddToErrors(r.e, PyStr("Malformed query error"),
                            "The submitted query was malformed"),
                PyStr("<class '" \o r.x.type \o "'>"), r.x.msg)]
  ELSE r

RECURSIVE Python2QueryExpr(_, _)
RECURSIVE Python2QueryExprEach(_, _, _)

EachAppend(acc, one) ==
  [x |-> one.x, qs |-> IF one.x = NoExc THEN Append(acc.qs, one.q) ELSE acc.qs,
   e |-> one.e]

(* [self._python2queryexpr(x) for x in xs]: acc holds the list so far, the *)
(* error map and the exception an element let go, which ends the loop;     *)
(* i is the next element                                                   *)
Python2QueryExprEach(xs, i, acc) ==
  IF i > Len(xs) \/ acc.x # NoExc THEN acc
  ELSE Python2QueryExprEach(xs, i + 1,
                            EachAppend(acc, Python2QueryExpr(xs[i], acc.e)))

(* the result of an operation on Q objects (r) as a result of the body *)
QResult(r, e) == [x |-> r.x, q |-> r.q, e |-> e]

(* functools.reduce taking the operands evaluated from the last to the    *)
(* first                                                                   *)
ReduceOperandsFromLast(conn, each) ==
  IF each.x # NoExc THEN Raise(each.x, each.e)
  ELSE IF each.qs = <<>>
    THEN Raise(Exc("TypeError", "reduce() of empty sequence with no initial value"),
               each.e)
  ELSE QResult(QReduce([x |-> NoExc, q |-> each.qs[Len(each.qs)]],
                       [i \in 1..Len(each.qs) |-> each.qs[Len(each.qs) + 1 - i]],
                       2, conn),
               each.e)

(* functools.reduce over the operands evaluated (each) *)
ReduceOperands(conn, each) ==
  IF each.x # NoExc THEN Raise(each.x, each.e)
  ELSE IF each.qs = <<>>
    THEN Raise(Exc("TypeError", "reduce() of empty sequence with no initial value"),
               each.e)
  ELSE QResult(QReduce([x |-> NoExc, q |-> each.qs[1]], each.qs, 2, conn), each.e)

(* the 'and'/'or' branch from query_as_list[1] (second) on *)
Connective(conn, second, e) ==
  IF second.x # NoExc THEN Raise(second.x, e)
  ELSE IF Iterate(second.v).x # NoExc THEN Raise(Iterate(second.v).x, e)
  ELSE ReduceOperands(conn,
         Python2QueryExprEach(Iterate(second.v).l, 1,
                              [x |-> NoExc, qs |-> <<>>, e |-> e]))

(* ~(inner), inner being the result of the recursive call *)
Invert(inner) ==
  IF inner.x # NoExc THEN inner ELSE QResult(QInvert(inner.q), inner.e)

(* the 'not' branch from query_as_list[1] (second) on *)
Negation(second, e) ==
  IF second.x # NoExc THEN Raise(second.x, e)
  ELSE Invert(Python2QueryExpr(second.v, e))

(* the body of the try statement from query_as_list[0] (first) on *)
Python2QueryExprBody(query_as_list, first, e) ==
  IF first.x # NoExc THEN Raise(first.x, e)
  ELSE IF first.v \in {PyStr("and"), PyStr("or")}
    THEN Connective(IF first.v = PyStr("and") THEN "AND" ELSE "OR",
                    Subscript(query_as_list, 1), e)
  ELSE IF first.v = PyStr("not") THEN Negation(Subscript(query_as_list, 1), e)
  ELSE GetSimpleQExpression(Iterate(query_as_list).l, e)

Python2QueryExpr(query_as_list, e) ==
  Except(Python2QueryExprBody(query_as_list, Subscript(query_as_list, 0), e))

(* _get_query_expression *)
GetQueryExpressionPrivate(query_as_list, e) == Python2QueryExpr(query_as_list, e)

----------------------------------------------------------------------------
(* The order-by translator. One pass of the loop body of _get_order_bys    *)
(* gives [x |-> the exception it lets go, add |-> the entry it appends     *)
(* (<<>> when it continues without one), e |-> the error map it leaves].   *)

Pass(x, add, e) == [x |-> x, add |-> add, e |-> e]

(* the try statement and the append, p holding order_by (v) *)
OrderByDirection(direction, p) ==
  IF p.x # NoExc THEN Pass(p.x, <<>>, p.e)
  ELSE IF direction.t # "str"
    THEN Pass(Exc("AttributeError",
                  "'" \o TypeName(direction) \o "' object has no attribute 'lower'"),
              <<>>, p.e)
  ELSE IF Lower(direction.s) \notin DOMAIN order_by_directions
    THEN Pass(NoExc, <<>>,
              AddToErrors(p.e, direction, "Unrecognized order by direction"))
  ELSE IF p.v.t # "str"
    THEN Pass(Exc("TypeError",
                  "can only concatenate str (not '" \o TypeName(p.v) \o "') to str"),
              <<>>, p.e)
  ELSE Pass(NoExc,
            <<PyStr((IF DirectionHasAlias(Lower(direction.s))
                     THEN order_by_directions[Lower(direction.s)]
                     ELSE direction.s) \o p.v.s)>>,
            p.e)

(* '{}__{}'.format(related_attribute_name, attribute_name), rn being what  *)
(* the second _get_attribute_name returned                                 *)
OrderByHopJoin(attribute, rn) ==
  [x |-> rn.x, v |-> PyStr(PyToStr(rn.v) \o "__" \o PyToStr(attribute)), e |-> rn.e]

(* from the return of the first _get_attribute_name (an) on *)
OrderByHopAttribute(related, model, an) ==
  IF an.x # NoExc THEN [x |-> an.x, v |-> PyNone, e |-> an.e]
  ELSE OrderByHopJoin(an.v, GetAttributeName(related, model, an.e))

(* from the return of _get_attribute_model_name (rm) on *)
OrderByHop(related, attribute, model, rm) ==
  IF rm.x # NoExc THEN [x |-> rm.x, v |-> PyNone, e |-> rm.e]
  ELSE OrderByHopAttribute(related, model, GetAttributeName(attribute, rm.v, rm.e))

(* the branch on related_attribute_name *)
OrderByName(related, attribute, model, e) ==
  IF Truthy(related)
  THEN OrderByHop(related, attribute, model,
                  GetAttributeModelName(related, model, e))
  ELSE GetAttributeName(attribute, model, e)

OrderByOne(d, model, e) ==
  IF d.t # "list"
  THEN Pass(NoExc, <<>>, AddToErrors(e, d, "Order by elements must be lists"))
  ELSE IF Len(d.l) = 1
    THEN OrderByDirection(PyStr(""), OrderByName(PyNone, d.l[1], model, e))
  ELSE IF Len(d.l) = 2
    THEN OrderByDirection(d.l[2], OrderByName(PyNone, d.l[1], model, e))
  ELSE IF Len(d.l) = 3
    THEN OrderByDirection(d.l[3], OrderByName(d.l[1], d.l[2], model, e))
  ELSE Pass(NoExc, <<>>,
            AddToErrors(e, d, "Order by elements must be lists of 1, 2 or 3 elements"))

(* the entry of a pass put before the entries so far *)
OrderByPrepend(acc, one) == [x |-> one.x, l |-> one.add \o acc.l, e |-> one.e]

(* order_bys.append: the entry of a pass, if any, after the entries so far *)
OrderByAppend(acc, one) == [x |-> one.x, l |-> acc.l \o one.add, e |-> one.e]

RECURSIVE OrderByEach(_, _, _, _)
(* the for loop of _get_order_bys: acc holds order_bys so far, the error   *)
(* map and the exception a pass let go, which ends the loop; i is the next *)
(* directive                                                               *)
OrderByEach(ds, i, model, acc) ==
  IF i > Len(ds) \/ acc.x # NoExc THEN acc
  ELSE OrderByEach(ds, i + 1, model,
                   OrderByAppend(acc, OrderByOne(ds[i], model, acc.e)))

(* the loop over what iterating inp_order_bys gives (directives) *)
OrderByLoop(directives, model, e) ==
  IF directives.x # NoExc THEN [x |-> directives.x, l |-> <<>>, e |-> e]
  ELSE OrderByEach(directives.l, 1, model, [x |-> NoExc, l |-> <<>>, e |-> e])

(* _get_order_bys starting from an empty error map, as the public method   *)
(* does                                                                    *)
GetOrderBysClearing(inp_order_bys, pk, model, e) ==
  IF inp_order_bys = PyNone THEN [x |-> NoExc, l |-> <<pk>>, e |-> NoErrors]
  ELSE OrderByLoop(Iterate(inp_order_bys), model, NoErrors)

(* _get_order_bys without default_order_bys: an empty list when            *)
(* inp_order_bys is None                                                   *)
GetOrderBysWithoutDefault(inp_order_bys, pk, model, e) ==
  IF inp_order_bys = PyNone THEN [x |-> NoExc, l |-> <<>>, e |-> e]
  ELSE OrderByLoop(Iterate(inp_order_bys), model, e)

(* _get_order_bys: [x |-> exception, l |-> the list returned, e] *)
GetOrderBysPrivate(inp_order_bys, pk, model, e) ==
  IF inp_order_bys = PyNone THEN [x |-> NoExc, l |-> <<pk>>, e |-> e]
  ELSE OrderByLoop(Iterate(inp_order_bys), model, e)

----------------------------------------------------------------------------
(* The facade *)

(* clear_errors leaving the map as it is *)
KeepErrors(e) == e

(* clear_errors *)
ClearErrors(e) == NoErrors

(* query_as_dict.get(key): None when the key is absent *)
DictGet(has, value) == IF has THEN value ELSE PyNone

NoHandle == [model |-> "", q |-> NoQ, order_bys |-> <<>>]

(* what a call leaves: how it ended ("returned", "raised" a               *)
(* SearchParseError, "escaped" with another exception), the exception that *)
(* escaped, the error map a SearchParseError carries, the values returned, *)
(* the store operations performed, the handle returned and self.errors     *)
(* after the call                                                          *)
Ended(outcome, exc, raised, q, order_bys, store, handle, e) ==
  [outcome |-> outcome, exc |-> exc, raised |-> raised, q |-> q,
   order_bys |-> order_bys, store |-> store, handle |-> handle, e |-> e]

Escaped(x, e) == Ended("escaped", x, NoErrors, NoQ, <<>>, <<>>, NoHandle, e)

(* _raise_search_parse_error_if_necessary without the clear_errors before  *)
(* the raise                                                               *)
RaiseWithoutClearing(e) ==
  IF e # NoErrors
  THEN [raise |-> TRUE, carried |-> e, e |-> e]
  ELSE [raise |-> FALSE, carried |-> NoErrors, e |-> e]

(* _raise_search_parse_error_if_necessary: raise = it raises,             *)
(* carried = the map the exception carries, e = self.errors afterwards     *)
RaiseSearchParseErrorIfNecessary(e) ==
  IF e # NoErrors
  THEN [raise |-> TRUE, carried |-> e, e |-> ClearErrors(e)]
  ELSE [raise |-> FALSE, carried |-> NoErrors, e |-> e]

(* _get_model_manager, filter and order_by: the store operations and the   *)
(* handle they give                                                        *)
QuerySetStore(model, q, order_bys, r) ==
  IF r.raise THEN Ended("raised", NoExc, r.carried, NoQ, <<>>, <<>>, NoHandle, r.e)
  ELSE Ended("returned", NoExc, NoErrors, q, order_bys,
             <<"objects", "filter", "order_by">>,
             [model |-> model, q |-> q, order_bys |-> order_bys], r.e)

(* get_query_set from the return of _get_order_bys (o) on *)
QuerySetRaise(model, q, o) ==
  IF o.x # NoExc THEN Escaped(o.x, o.e)
  ELSE QuerySetStore(model, q, o.l, RaiseSearchParseErrorIfNecessary(o.e))

(* get_query_set calling _get_order_bys without self.primary_key, so with  *)
(* the default of its parameter                                            *)
QuerySetOrderByDefaultKey(inp_order_bys, model, pk, f) ==
  IF f.x # NoExc THEN Escaped(f.x, f.e)
  ELSE QuerySetRaise(model, f.q,
                     GetOrderBysPrivate(inp_order_bys, PyStr("uuid"), PyStr(model), f.e))

(* get_query_set from the return of _get_query_expression (f) on *)
QuerySetOrderBy(inp_order_bys, model, pk, f) ==
  IF f.x # NoExc THEN Escaped(f.x, f.e)
  ELSE QuerySetRaise(model, f.q,
                     GetOrderBysPrivate(inp_order_bys, PyStr(pk), PyStr(model), f.e))

(* get_query_set on a builder bound to model and pk, self.errors being e0 *)
GetQuerySet(has_filter, filter, has_order_by, order_by, model, pk, e0) ==
  QuerySetOrderBy(DictGet(has_order_by, order_by), model, pk,
                  GetQueryExpressionPrivate(DictGet(has_filter, filter),
                                            ClearErrors(e0)))

QueryExpressionReturn(f) ==
  IF f.x # NoExc THEN Escaped(f.x, f.e)
  ELSE Ended("returned", NoExc, NoErrors, f.q, <<>>, <<>>, NoHandle, f.e)

(* get_query_expression *)
GetQueryExpression(query_as_list, e0) ==
  QueryExpressionReturn(GetQueryExpressionPrivate(query_as_list, ClearErrors(e0)))

OrderBysReturn(o) ==
  IF o.x # NoExc THEN Escaped(o.x, o.e)
  ELSE Ended("returned", NoExc, NoErrors, NoQ, o.l, <<>>, NoHandle, o.e)

(* get_order_bys *)
GetOrderBys(inp_order_bys, pk, model, e0) ==
  OrderBysReturn(GetOrderBysPrivate(inp_order_bys, pk, PyStr(model), ClearErrors(e0)))

----------------------------------------------------------------------------
(* The inputs *)

(* the longest operand list of a generated 'and'/'or' expression *)
MaxOperands == 2
(* the longest generated order_by list *)
MaxDirectives == 2

Strs(xs) == PyList([i \in 1..Len(xs) |-> PyStr(xs[i])])

ModelNames == DOMAIN schema

AttributesOf(m) == IF m \in ModelNames THEN DOMAIN schema[m] ELSE {}

ForeignAttributesOf(m) == {a \in AttributesOf(m) : schema[m][a].foreign_model # ""}

(* relation tokens: every key of the two tables, and one of neither *)
RelationTokens == DOMAIN relations \cup DOMAIN foreign_model_relations \cup {"near"}

TermValues ==
  {PyNone, PyStr("%a%"), PyNum(2), PyStr("caf(U+00E9)"),
   PyStr("2018-01-01T00:00:00"),
   Strs(<<"75a481ea", "caf(U+00E9)">>)}

(* [model, attr, relation, value] over the whole schema, with one model    *)
(* and one attribute per model that the schema does not hold               *)
Terms4 ==
  {PyList(<<PyStr(m), PyStr(a), PyStr(r), v>>) :
     m \in ModelNames \cup {"Gonzo"}, a \in {"uuid", "gonzo"},
     r \in {"=", "like"}, v \in {PyStr("%a%")}}
  \cup
  UNION {{PyList(<<PyStr(m), PyStr(a), PyStr(r), v>>) :
            a \in AttributesOf(m) \cup {"gonzo"}, r \in RelationTokens,
            v \in TermValues} : m \in ModelNames}
  \cup
  {PyList(<<PyStr("Space"), PyStr("last_verified"), PyStr(r), v>>) :
     r \in {"in", "<"},
     v \in {PyList(<<PyStr("2018-01-01T00:00:00"), PyStr("yesterday"), PyNone,
                     PyStr("caf(U+00E9)")>>)}}

HopRelationTokens == {"=", "exact", "!=", "like", "contains", "isnull", "<", "in", "near"}

HopValues == {PyNone, PyStr("caf(U+00E9)"), PyStr("2018-01-01T00:00:00")}

(* [model, related_attr, attr, relation, value]: every foreign attribute   *)
(* of every model with every attribute of the model it leads to            *)
Terms5 ==
  UNION {UNION {{PyList(<<PyStr(m), PyStr(ra), PyStr(a), PyStr(r), v>>) :
                   a \in AttributesOf(schema[m][ra].foreign_model) \cup {"gonzo"},
                   r \in HopRelationTokens, v \in HopValues} :
                ra \in ForeignAttributesOf(m)} : m \in ModelNames}
  \cup
  {PyList(<<PyStr(m), PyStr(ra), PyStr("uuid"), PyStr("="), PyStr("%a%")>>) :
     m \in {"Package", "Gonzo"}, ra \in {"description", "gonzo"}}

(* the filters and operands the compound expressions are built from *)
GoodTerm1 == Strs(<<"Package", "description", "like", "%a%">>)
GoodTerm2 == Strs(<<"Package", "origin_pipeline", "description", "=", "Well described.">>)
GoodTerm3 == PyList(<<PyStr("Package"), PyStr("size"), PyStr("<"), PyNum(1000)>>)
NullTerm == PyList(<<PyStr("Package"), PyStr("origin_pipeline"), PyStr("="), PyNone>>)
BadAttributeTerm == Strs(<<"Package", "gonzo", "like", "%a%">>)
BadRelationTerm == PyList(<<PyStr("Package"), PyStr("origin_pipeline"), PyStr("<"), PyNum(2)>>)
BadModelTerm == Strs(<<"Gonzo", "uuid", "=", "x">>)
OtherModelTerm == Strs(<<"Space", "path", "=", "/var">>)
AnObject == PyDict(<<PyStr("a"), PyNum(1)>>)

Operands ==
  {GoodTerm1, GoodTerm2, BadAttributeTerm, BadRelationTerm, AnObject,
   PyList(<<PyStr("not"), GoodTerm3>>)}

SeqsUpTo(S, n) == UNION {[1..k -> S] : k \in 0..n}

Compounds ==
  {PyList(<<PyStr(c), PyList(ops)>>) :
     c \in {"and", "or"}, ops \in SeqsUpTo(Operands, MaxOperands)}
  \cup {PyList(<<PyStr("not"), x>>) : x \in Operands \cup {PyNone, GoodTerm3}}
  \cup {PyList(<<PyStr("and"),
                 PyList(<<GoodTerm1, PyList(<<PyStr("not"), GoodTerm3>>),
                          PyList(<<PyStr("or"), PyList(<<GoodTerm3, GoodTerm2>>)>>)>>)>>),
        PyList(<<PyStr("not"), PyList(<<PyStr("not"), GoodTerm1>>)>>)}
  \cup {PyList(<<PyStr(c),
                  PyList(<<PyList(<<PyStr(c), PyList(<<GoodTerm1, GoodTerm3>>)>>),
                           GoodTerm2>>)>>) : c \in {"and", "or"}}

(* filters that are no expression: null, numbers, strings, objects, empty  *)
(* and nested arrays, terms too short and too long, connectives without    *)
(* or with ill-typed operands                                              *)
Malformed ==
  {PyNone, PyNum(5), PyBool(TRUE), PyStr(""), PyStr("a"), PyStr("not"), PyStr("abcde"),
   PyDict(<<>>), AnObject, PyList(<<>>), PyList(<<PyList(<<>>)>>),
   PyList(<<GoodTerm1>>), PyList(<<GoodTerm1, GoodTerm2>>),
   Strs(<<"Package">>), Strs(<<"Package", "description">>),
   Strs(<<"Package", "description", "like">>),
   Strs(<<"Package", "origin_pipeline", "description">>),
   Strs(<<"Package", "origin_pipeline", "description", "regex", "^[JS]", "more">>),
   PyList(<<Strs(<<"Package">>), PyStr("uuid"), PyStr("="), PyStr("x")>>),
   PyList(<<PyStr("Package"), PyList(<<>>), PyStr("="), PyStr("x")>>),
   PyList(<<PyStr("Package"), PyStr("uuid"), PyList(<<>>), PyStr("x")>>),
   PyList(<<PyNone, PyStr("uuid"), PyStr("="), PyStr("x")>>),
   PyList(<<PyStr("Package"), PyNum(7), PyStr("="), PyStr("x")>>),
   PyList(<<PyStr("Package"), PyStr("uuid"), PyNone, PyStr("x")>>),
   PyList(<<PyStr("Package"), PyStr("uuid"), PyStr("="), AnObject>>),
   PyList(<<PyStr("and")>>), PyList(<<PyStr("and"), PyNone>>),
   PyList(<<PyStr("or"), PyNum(3)>>), PyList(<<PyStr("and"), PyStr("uuid")>>),
   PyList(<<PyStr("and"), AnObject>>),
   PyList(<<PyStr("and"), Strs(<<"Package", "uuid">>)>>),
   PyList(<<PyStr("not")>>), PyList(<<PyStr("not"), PyStr("Package")>>),
   PyList(<<PyStr("xor"), PyList(<<GoodTerm1, GoodTerm3>>)>>)}

Filters == Terms4 \cup Terms5 \cup Compounds \cup Malformed

(* the filters get_query_set is called with *)
QueryFilters ==
  {GoodTerm1, GoodTerm2, NullTerm, OtherModelTerm, BadAttributeTerm,
   BadRelationTerm, BadModelTerm, PyNone, PyNum(5), PyStr("uuid"), AnObject,
   PyList(<<>>), PyList(<<PyStr("and"), PyList(<<GoodTerm1, GoodTerm3>>)>>),
   PyList(<<PyStr("and"), PyList(<<BadAttributeTerm, BadRelationTerm>>)>>),
   PyList(<<PyStr("not"), AnObject>>),
   PyList(<<PyStr("Space"), PyStr("last_verified"), PyStr("<"), PyStr("yesterday")>>)}


(* order-by directives: the ones a Package builder accepts, then the ones  *)
(* with an unknown name, direction or length, or of another type           *)
Directives ==
  {Strs(<<"description">>), Strs(<<"description", "desc">>),
   Strs(<<"size", "ASC">>), Strs(<<"uuid", "Descending">>),
   Strs(<<"status", "-">>), Strs(<<"status", "">>),
   Strs(<<"origin_pipeline", "uuid", "desc">>),
   Strs(<<"origin_pipeline", "uuid", "asc">>),
   Strs(<<"replicas", "size", "Ascending">>)}
  \cup
  {Strs(<<"origin_pipeline", "monkey", "asc">>), Strs(<<"gonzo">>),
   Strs(<<"description", "sideways">>), Strs(<<"gonzo", "uuid", "asc">>),
   Strs(<<"description", "uuid", "asc">>), Strs(<<"a", "b", "c", "d">>),
   PyList(<<>>), PyStr("description"), PyNum(5), PyNone,
   PyList(<<PyNum(5)>>), PyList(<<PyStr("description"), PyNone>>),
   PyList(<<PyList(<<>>)>>), PyList(<<PyStr(""), PyStr("uuid"), PyStr("desc")>>)}

(* the directives the longer order_by lists are built from *)
ListedDirectives ==
  {Strs(<<"description">>), Strs(<<"description", "desc">>),
   Strs(<<"origin_pipeline", "uuid", "asc">>),
   Strs(<<"origin_pipeline", "monkey", "asc">>),
   Strs(<<"description", "sideways">>), Strs(<<"a", "b", "c", "d">>),
   PyStr("description"), Strs(<<"gonzo", "uuid", "asc">>)}

OrderBys ==
  {PyList(<<d>>) : d \in Directives}
  \cup {PyList(ds) : ds \in SeqsUpTo(ListedDirectives, MaxDirectives)}
  \cup {PyNone, PyNum(5), PyBool(FALSE), PyStr("uuid"), PyStr(""), AnObject}

(* the order_by values get_query_set is called with *)
QueryOrderBys ==
  {PyNone, PyNum(5), PyStr("uuid"), AnObject, PyList(<<>>),
   PyList(<<Strs(<<"description", "desc">>)>>),
   PyList(<<Strs(<<"origin_pipeline", "uuid", "asc">>), Strs(<<"description", "desc">>)>>),
   PyList(<<Strs(<<"origin_pipeline", "monkey", "asc">>)>>),
   PyList(<<Strs(<<"description", "desc">>), Strs(<<"description", "sideways">>)>>),
   PyList(<<Strs(<<"gonzo", "uuid", "asc">>)>>),
   PyList(<<PyList(<<PyStr("description"), PyNone>>)>>),
   PyList(<<Strs(<<"a", "b", "c", "d">>)>>)}

PrimaryKeys == {"uuid", "id"}

(* the builders: the target model and the primary key bound at construction *)
Builders == {<<"Package", "uuid">>, <<"Location", "uuid">>, <<"Space", "id">>}

----------------------------------------------------------------------------
(* The route builder (api/v3/urls.py). A route is the namedtuple Route;    *)
(* self.routes is a dict keyed by regex, kept here as the sequence of its  *)
(* items in the order the keys were inserted, an item being                *)
(* [regex, route_name, http_methods]; http_methods is the dict             *)
(* HTTP method -> <<class_name, method_name>>.                             *)

UUID_PATT == "\\w{8}-\\w{4}-\\w{4}-\\w{4}-\\w{12}"
ID_PATT == "\\d+"

RESOURCE_ACTIONS == <<"create", "delete", "edit", "index", "new", "show", "update">>
COLLECTION_TARGETTING == {"create", "index"}
MEMBER_TARGETTING == {"delete", "show", "update"}
DEFAULT_METHOD == "GET"
ACTIONS2METHODS == [create |-> "POST", delete |-> "DELETE", update |-> "PUT"]

(* INFLP.plural(rsrc_member_name), classical mode *)
Plural(member) ==
  CASE member = "octopus" -> "octopodes"
    [] member = "sky" -> "skies"
    [] OTHER -> member \o "s"

(* str.capitalize() of the collection names *)
Capitalize(c) ==
  CASE c = "locations" -> "Locations" [] c = "packages" -> "Packages"
    [] c = "spaces" -> "Spaces" [] c = "pipelines" -> "Pipelines"
    [] c = "skies" -> "Skies" [] c = "octopodes" -> "Octopodes"
    [] OTHER -> c

Route(name, regex, http_method, class_name, method_name) ==
  [name |-> name, regex |-> regex, http_method |-> http_method,
   class_name |-> class_name, method_name |-> method_name]

RECURSIVE JoinSlash(_)
(* '/'.join(modifiers) *)
JoinSlash(modifiers) ==
  IF modifiers = <<>> THEN ""
  ELSE IF Len(modifiers) = 1 THEN modifiers[1]
  ELSE modifiers[1] \o "/" \o JoinSlash(Tail(modifiers))

(* modifiers = <<>> stands for None as well as for the empty list *)
get_collection_targetting_regex(rsrc_collection_name, modifiers) ==
  IF modifiers # <<>>
  THEN "^" \o rsrc_collection_name \o "/" \o JoinSlash(modifiers) \o "/$"
  ELSE "^" \o rsrc_collection_name \o "/$"

get_member_targetting_regex(rsrc_collection_name, pk_patt, modifiers) ==
  IF modifiers # <<>>
  THEN "^" \o rsrc_collection_name \o "/(?P<pk>" \o pk_patt \o ")/"
       \o JoinSlash(modifiers) \o "/$"
  ELSE "^" \o rsrc_collection_name \o "/(?P<pk>" \o pk_patt \o ")/$"

(* the routes yield_search_routes yields, in order *)
yield_search_routes(rsrc_member_name) ==
  <<Route(Plural(rsrc_member_name),
          get_collection_targetting_regex(Plural(rsrc_member_name), <<>>),
          "SEARCH", Capitalize(Plural(rsrc_member_name)), "search"),
    Route(Plural(rsrc_member_name) \o "_search",
          get_collection_targetting_regex(Plural(rsrc_member_name), <<"search">>),
          "POST", Capitalize(Plural(rsrc_member_name)), "search"),
    Route(Plural(rsrc_member_name) \o "_new_search",
          get_collection_targetting_regex(Plural(rsrc_member_name), <<"new_search">>),
          "GET", Capitalize(Plural(rsrc_member_name)), "new_search")>>

(* ACTIONS2METHODS.get(action, DEFAULT_METHOD) *)
HttpMethodOf(action) ==
  IF action \in DOMAIN ACTIONS2METHODS THEN ACTIONS2METHODS[action] ELSE DEFAULT_METHOD

(* the body of the loop of yield_standard_routes *)
StandardRoute(rsrc_member_name, pk_patt, action) ==
  IF action \in COLLECTION_TARGETTING
  THEN Route(Plural(rsrc_member_name),
             get_collection_targetting_regex(Plural(rsrc_member_name), <<>>),
             HttpMethodOf(action), Capitalize(Plural(rsrc_member_name)), action)
  ELSE IF action \in MEMBER_TARGETTING
  THEN Route(rsrc_member_name,
             get_member_targetting_regex(Plural(rsrc_member_name), pk_patt, <<>>),
             HttpMethodOf(action), Capitalize(Plural(rsrc_member_name)), action)
  ELSE IF action = "new"
  THEN Route(Plural(rsrc_member_name) \o "_new",
             get_collection_targetting_regex(Plural(rsrc_member_name), <<"new">>),
             HttpMethodOf(action), Capitalize(Plural(rsrc_member_name)), action)
  ELSE Route(rsrc_member_name \o "_edit",
             get_member_targetting_regex(Plural(rsrc_member_name), pk_patt, <<"edit">>),
             HttpMethodOf(action), Capitalize(Plural(rsrc_member_name)), action)

yield_standard_routes(rsrc_member_name, pk_patt) ==
  [i \in 1..Len(RESOURCE_ACTIONS) |->
     StandardRoute(rsrc_member_name, pk_patt, RESOURCE_ACTIONS[i])]

(* the regexes that are keys of the table rt *)
Regexes(rt) == {rt[i].regex : i \in 1..Len(rt)}

(* self.routes[regex] *)
ConfigOf(rt, regex) == rt[CHOOSE i \in 1..Len(rt) : rt[i].regex = regex]

(* http_methods_config[http_method] = (class_name, method_name) *)
SetMethod(http_methods, route) ==
  [m \in DOMAIN http_methods \cup {route.http_method} |->
     IF m = route.http_method THEN <<route.class_name, route.method_name>>
     ELSE http_methods[m]]

(* register_route storing a new config with the method of the route alone  *)
RegisterRouteAnew(rt, route) ==
  IF route.regex \in Regexes(rt)
  THEN [i \in 1..Len(rt) |->
          IF rt[i].regex = route.regex
          THEN [regex |-> route.regex, route_name |-> route.name,
                http_methods |-> SetMethod(<<>>, route)]
          ELSE rt[i]]
  ELSE Append(rt, [regex |-> route.regex, route_name |-> route.name,
                   http_methods |-> SetMethod(<<>>, route)])

(* register_route *)
register_route(rt, route) ==
  IF route.regex \in Regexes(rt)
  THEN [i \in 1..Len(rt) |->
          IF rt[i].regex = route.regex
          THEN [regex |-> route.regex, route_name |-> route.name,
                http_methods |-> SetMethod(rt[i].http_methods, route)]
          ELSE rt[i]]
  ELSE Append(rt, [regex |-> route.regex, route_name |-> route.name,
                   http_methods |-> SetMethod(<<>>, route)])

RECURSIVE RegisterEach(_, _, _)
(* the loop registering the routes yielded, one after the other; the test  *)
(* of Len(rt), which never holds, has the table evaluated before the next  *)
(* route is taken                                                          *)
RegisterEach(rt, rs, i) ==
  IF i > Len(rs) \/ Len(rt) < 0 THEN rt
  ELSE RegisterEach(register_route(rt, rs[i]), rs, i + 1)

(* a resource configuration: searchable and pk_patt are "" when the key is *)
(* absent; searchable is otherwise "True" or "False"                       *)
RsrcConfig(searchable, pk_patt) == [searchable |-> searchable, pk_patt |-> pk_patt]

(* rsrc_config.get('pk_patt', UUID_PATT) *)
PkPattOf(rsrc_config) ==
  IF rsrc_config.pk_patt = "" THEN UUID_PATT ELSE rsrc_config.pk_patt

(* register_routes_for_resource taking every resource for searchable *)
RegisterRoutesSearchable(rt, rsrc_member_name, rsrc_config) ==
  RegisterEach(rt,
               yield_search_routes(rsrc_member_name)
                 \o yield_standard_routes(rsrc_member_name, PkPattOf(rsrc_config)),
               1)

register_routes_for_resource(rt, rsrc_member_name, rsrc_config) ==
  RegisterEach(rt,
               (IF rsrc_config.searchable \in {"", "True"}
                THEN yield_search_routes(rsrc_member_name) ELSE <<>>)
                 \o yield_standard_routes(rsrc_member_name, PkPattOf(rsrc_config)),
               1)

RECURSIVE register_routes_for_resources(_, _, _)
(* resources_ holds the items of the dict, <<member name, config>>, in the *)
(* order the loop takes them; i is the next item                           *)
register_routes_for_resources(rt, resources_, i) ==
  IF i > Len(resources_) \/ Len(rt) < 0 THEN rt
  ELSE register_routes_for_resources(
         register_routes_for_resource(rt, resources_[i][1], resources_[i][2]), resources_, i + 1)

(* get_urlpatterns: one url per item of self.routes; the view of a url is  *)
(* resource_callable closed over the config of the item, the dict object   *)
(* self.routes holds under the regex                                       *)
get_urlpatterns(rt) ==
  [i \in 1..Len(rt) |-> [regex |-> rt[i].regex, name |-> rt[i].route_name]]

(* the resource classes resources.py defines *)
ResourceClasses == {"ReadonlyResources", "Resources", "Packages", "Pipelines"}

Responded(outcome, status, body, events) ==
  [outcome |-> outcome, status |-> status, body |-> body, events |-> events]

METHOD_NOT_ALLOWED_STATUS == 405
FORBIDDEN_STATUS == 403

(* the body method_not_allowed(tried_method, accepted_methods) builds *)
method_not_allowed(tried_method, accepted_methods) ==
  [error |-> "method not allowed", tried |-> tried_method,
   accepted |-> accepted_methods]

UNAUTHORIZED_MSG ==
  [error |-> "You are not authorized to access this resource.", tried |-> "",
   accepted |-> {}]

(* what the action method returns for (response, status), or that it      *)
(* raises                                                                  *)
ActionBody(result) == [error |-> result.response, tried |-> "", accepted |-> {}]

(* resource_callable calling the action method whenever the authentication *)
(* result is not False                                                     *)
ResourceCallableUnlessFalse(config, request_method, auth_result, result) ==
  IF request_method \notin DOMAIN config.http_methods
  THEN Responded("returned", METHOD_NOT_ALLOWED_STATUS,
                 method_not_allowed(request_method, DOMAIN config.http_methods),
                 <<>>)
  ELSE IF config.http_methods[request_method][1] \notin ResourceClasses
  THEN Responded("escaped", 0, UNAUTHORIZED_MSG, <<>>)
  ELSE IF auth_result # "False"
  THEN IF result.raises
       THEN Responded("escaped", 0, UNAUTHORIZED_MSG,
                      <<"__init__", "is_authenticated",
                        config.http_methods[request_method][2]>>)
       ELSE Responded("returned", result.status, ActionBody(result),
                      <<"__init__", "is_authenticated",
                        config.http_methods[request_method][2]>>)
  ELSE Responded("returned", FORBIDDEN_STATUS, UNAUTHORIZED_MSG,
                 <<"__init__", "is_authenticated">>)

(* resource_callable(config, request): outcome "escaped" when an exception *)
(* leaves it (the class is not in resources, or the action raises); events *)
(* lists, in order, the calls made on the resource class, the              *)
(* authentication and the instance                                         *)
resource_callable(config, request_method, auth_result, result) ==
  IF request_method \notin DOMAIN config.http_methods
  THEN Responded("returned", METHOD_NOT_ALLOWED_STATUS,
                 method_not_allowed(request_method, DOMAIN config.http_methods),
                 <<>>)
  ELSE IF config.http_methods[request_method][1] \notin ResourceClasses
  THEN Responded("escaped", 0, UNAUTHORIZED_MSG, <<>>)
  ELSE IF auth_result = "True"
  THEN IF result.raises
       THEN Responded("escaped", 0, UNAUTHORIZED_MSG,
                      <<"__init__", "is_authenticated",
                        config.http_methods[request_method][2]>>)
       ELSE Responded("returned", result.status, ActionBody(result),
                      <<"__init__", "is_authenticated",
                        config.http_methods[request_method][2]>>)
  ELSE Responded("returned", FORBIDDEN_STATUS, UNAUTHORIZED_MSG,
                 <<"__init__", "is_authenticated">>)

----------------------------------------------------------------------------
(* The route builder as a state machine, used as the module uses it: the   *)
(* routes are registered, then the urls are taken, then a request is       *)
(* served. routes is self.routes,                                          *)
(* urlpatterns the list the last get_urlpatterns returned, response the    *)
(* last request served by a view of that list, served the number of        *)
(* requests served, registered the calls made on the builder, each with    *)
(* the table it found.                                                     *)

(* the longest resources_ dict of the generated configurations *)
MaxResources == 2
(* the most registrations made on one builder *)
MaxRegistrations == 2

Members == {"package", "space"}

RsrcConfigs ==
  {RsrcConfig(s, p) : s \in {"", "False"}, p \in {"", ID_PATT}}
  \cup {RsrcConfig("True", "")}

(* the configuration of the module and the one of test_urls_construction   *)
RESOURCES ==
  <<<<"location", RsrcConfig("", "")>>, <<"package", RsrcConfig("", "")>>,
    <<"space", RsrcConfig("", "")>>, <<"pipeline", RsrcConfig("", "")>>>>

TestResources ==
  <<<<"location", RsrcConfig("", "")>>, <<"package", RsrcConfig("", ID_PATT)>>,
    <<"space", RsrcConfig("False", "")>>, <<"pipeline", RsrcConfig("", "")>>>>

ResourcesDicts ==
  {rs \in SeqsUpTo(Members \X RsrcConfigs, MaxResources) :
     \A i, j \in 1..Len(rs) : i # j => rs[i][1] # rs[j][1]}
  \cup {RESOURCES, TestResources}

(* routes registered one at a time: a new method and a method already      *)
(* there under a regex of the packages, and a regex of its own             *)
ExtraRoutes ==
  {Route("packages_patch", "^packages/$", "PATCH", "Packages", "update"),
   Route("packages_history", "^packages/$", "GET", "Packages", "history"),
   Route("status", "^status/$", "GET", "Pipelines", "index")}

RequestMethods == {"GET", "POST", "PUT", "DELETE", "SEARCH", "PATCH"}

(* MultiAuthentication.is_authenticated: True, False, or the response of   *)
(* a backend                                                               *)
AuthResults == {"True", "False", "HttpUnauthorized"}

ActionResults ==
  {[raises |-> FALSE, response |-> "resource", status |-> 200],
   [raises |-> FALSE, response |-> "There is no resource", status |-> 404],
   [raises |-> TRUE, response |-> "", status |-> 0]}

NoResponse ==
  [regex |-> "", method |-> "", auth_result |-> "", http_methods |-> <<>>,
   outcome |-> "", status |-> 0, body |-> UNAUTHORIZED_MSG, events |-> <<>>]

InitRouting ==
  /\ routes = <<>>
  /\ urlpatterns = <<>>
  /\ response = NoResponse
  /\ registered = <<>>
  /\ served = 0

Registration(op, resources_, route, found) ==
  [op |-> op, resources |-> resources_, route |-> route, found |-> found]

NoRoute == Route("", "", "", "", "")

(* get_urlpatterns has been called *)
UrlsTaken ==
  registered # <<>> /\ registered[Len(registered)].op = "get_urlpatterns"

(* route_builder.register_routes_for_resources(resources_) on the builder  *)
(* as constructed                                                          *)
RegisterRoutesForResources ==
  /\ registered = <<>>
  /\ \E resources_ \in ResourcesDicts :
       /\ routes' = register_routes_for_resources(routes, resources_, 1)
       /\ registered' = Append(registered,
                               Registration("register_routes_for_resources",
                                            resources_, NoRoute, routes))
  /\ UNCHANGED <<urlpatterns, response, served, building, viewing, sharing>>

RegisterRoute ==
  /\ Len(registered) < MaxRegistrations
  /\ ~UrlsTaken
  /\ \E route \in ExtraRoutes :
       /\ routes' = register_route(routes, route)
       /\ registered' = Append(registered,
                               Registration("register_route", <<>>, route, routes))
  /\ UNCHANGED <<urlpatterns, response, served, building, viewing, sharing>>

GetUrlpatterns ==
  /\ ~UrlsTaken
  /\ urlpatterns' = get_urlpatterns(routes)
  /\ registered' = Append(registered,
                          Registration("get_urlpatterns", <<>>, NoRoute, routes))
  /\ UNCHANGED <<routes, response, served, building, viewing, sharing>>

(* a request matched by a url of urlpatterns and served by its view *)
ServeRequest ==
  /\ served = 0
  /\ served' = served + 1
  /\ \E i \in 1..Len(urlpatterns), request_method \in RequestMethods,
        auth_result \in AuthResults, result \in ActionResults :
       \E r \in {resource_callable(ConfigOf(routes, urlpatterns[i].regex),
                                   request_method, auth_result, result)} :
         response' = [regex |-> urlpatterns[i].regex, method |-> request_method,
                      auth_result |-> auth_result,
                      http_methods |->
                        ConfigOf(routes, urlpatterns[i].regex).http_methods,
                      outcome |-> r.outcome, status |-> r.status,
                      body |-> r.body, events |-> r.events]
  /\ UNCHANGED <<routes, urlpatterns, registered, building, viewing, sharing>>

NextRoutes ==
  \/ RegisterRoutesForResources
  \/ RegisterRoute
  \/ GetUrlpatterns
  \/ ServeRequest

----------------------------------------------------------------------------
(* The resource views (api/v3/resources.py): search, index and what they   *)
(* call. A view ends as outcome "returned", with the status and the body   *)
(* it answers, or "escaped", with the exception that leaves it; steps      *)
(* lists the calls it made, order_by_args the arguments it gave to         *)
(* query_set.order_by.                                                     *)

(* the names bound in the module: its imports and its definitions *)
ModuleNames ==
  {"abc", "json", "logging", "settings", "url", "model_to_dict", "JsonResponse",
   "Schema", "Int", "inflect", "models", "QueryBuilder", "schemata", "LOGGER",
   "INFLP", "JSONDecodeErrorResponse", "UNAUTHORIZED_MSG", "ReadonlyResources",
   "Resources", "SchemaState", "get_eagerloader", "PaginatorSchema",
   "get_paginated_query_results", "add_pagination", "Packages", "Pipelines"}

(* the builtin exception classes the views name *)
BuiltinNames == {"Exception", "ValueError"}

(* the first of the names that is bound neither in the module nor in the   *)
(* builtins, "" when all are bound                                         *)
FirstUnbound(names) ==
  IF \A i \in 1..Len(names) : names[i] \in ModuleNames \cup BuiltinNames THEN ""
  ELSE names[CHOOSE i \in 1..Len(names) :
               /\ names[i] \notin ModuleNames \cup BuiltinNames
               /\ \A j \in 1..(i - 1) : names[j] \in ModuleNames \cup BuiltinNames]

NameError(name) == Exc("NameError", "name '" \o name \o "' is not defined")

Viewed(outcome, exc, status, errors_, error, steps, order_by_args) ==
  [outcome |-> outcome, exc |-> exc, status |-> status, errors |-> errors_,
   error |-> error, steps |-> steps, order_by_args |-> order_by_args]

ViewEscaped(x, steps, order_by_args) ==
  Viewed("escaped", x, 0, NoErrors, "", steps, order_by_args)

BAD_REQUEST_STATUS == 400

InvalidQueryMsg ==
  "The specified search parameters generated an invalid database query"

(* an except clause naming the classes in names, reached with the          *)
(* exception x of class cls: evaluating a name that is not bound raises    *)
(* NameError, which leaves the try statement; matches = x is an instance   *)
(* of one of the classes; handled and next are what the view does when the *)
(* clause matches and when it does not                                     *)
ExceptClause(names, matches, steps, order_by_args, handled, next) ==
  IF FirstUnbound(names) # ""
  THEN ViewEscaped(NameError(FirstUnbound(names)), steps, order_by_args)
  ELSE IF matches THEN handled ELSE next

(* add_pagination: the paginator is "absent", "valid" or "invalid"; x is   *)
(* the exception PaginatorSchema.to_python raises                          *)
add_pagination(paginator) ==
  IF paginator = "invalid"
  THEN [x |-> Exc("Invalid", "Please enter an integer value"), paginated |-> FALSE]
  ELSE [x |-> NoExc, paginated |-> paginator = "valid"]

(* search from the return of add_pagination (p) on *)
SearchPaginated(p, steps) ==
  IF p.x # NoExc
  THEN ExceptClause(<<"OperationalError">>, FALSE, steps, <<>>,
         Viewed("returned", NoExc, BAD_REQUEST_STATUS, NoErrors, InvalidQueryMsg,
                steps, <<>>),
         ExceptClause(<<"Invalid">>, TRUE, steps, <<>>,
           Viewed("returned", NoExc, BAD_REQUEST_STATUS,
                  AddToErrors(NoErrors, PyStr("page"), p.x.msg), "", steps, <<>>),
           ViewEscaped(p.x, steps, <<>>)))
  ELSE Viewed("returned", NoExc, 200, NoErrors, "", steps, <<>>)

(* search from the end of query_builder.get_query_set (ended) on: the      *)
(* handlers of the try statement, then the rest of the method              *)
SearchQueried(ended, paginator) ==
  IF ended.outcome # "returned"
  THEN ExceptClause(<<"OLDSearchParseError", "Invalid">>,
                    ended.outcome = "raised",
                    <<"get_query_set">>, <<>>,
         Viewed("returned", NoExc, BAD_REQUEST_STATUS, ended.raised, "",
                <<"get_query_set">>, <<>>),
         ExceptClause(<<"Exception">>, TRUE, <<"get_query_set">>, <<>>,
           Viewed("returned", NoExc, BAD_REQUEST_STATUS, NoErrors, InvalidQueryMsg,
                  <<"get_query_set">>, <<>>),
           ViewEscaped(ended.exc, <<"get_query_set">>, <<>>)))
  ELSE SearchPaginated(add_pagination(paginator),
                       <<"get_query_set", "_eagerload_model", "_filter_query",
                         "add_pagination">>)

NoneHasNoGet ==
  Escaped(Exc("AttributeError", "'NoneType' object has no attribute 'get'"), NoErrors)

(* search of a resource of the model, the request body being body: json =  *)
(* it is JSON, has_query = it holds 'query', a dict with the filter and    *)
(* the order_by given; the query builder is the instance's own, as         *)
(* constructed                                                             *)
search(model, pk, body) ==
  IF ~body.json
  THEN Viewed("returned", NoExc, BAD_REQUEST_STATUS, NoErrors,
              "JSON decode error: the parameters provided were not valid JSON.",
              <<>>, <<>>)
  ELSE SearchQueried(
         IF ~body.has_query THEN NoneHasNoGet
         ELSE GetQuerySet(body.has_filter, body.filter, body.has_order_by,
                          body.order_by, model, pk, NoErrors),
         body.paginator)

(* list(filter(None, [attribute, subattribute, direction])): the           *)
(* parameters of the request that are given and not empty                  *)
GivenParams(order_by_params) ==
  SelectSeq(<<order_by_params.order_by_attribute,
              order_by_params.order_by_subattribute,
              order_by_params.order_by_direction>>,
            Truthy)

(* QuerySet.order_by, all arguments field names: each argument has to be a field name,  *)
(* a str; given anything else the store raises (TypeError or FieldError,   *)
(* depending on its version)                                               *)
StoreOrderBy(args) ==
  IF \A i \in 1..Len(args) : args[i].t = "str" THEN NoExc
  ELSE Exc("TypeError", "expected string or buffer")

(* add_order_by from the end of query_builder.get_order_bys (ended) on:    *)
(* the list it returned is the one argument of order_by                    *)
OrderByReturned(ended) ==
  IF ended.outcome = "escaped"
  THEN [x |-> ended.exc, order_by_args |-> <<>>, e |-> ended.e]
  ELSE [x |-> StoreOrderBy(<<PyList(ended.order_bys)>>),
        order_by_args |-> <<PyList(ended.order_bys)>>, e |-> ended.e]

(* add_order_by with the instance's own query builder: inp_order_bys is    *)
(* the list of the one directive made of the parameters given, whether or  *)
(* not there are any                                                       *)
add_order_by(model, pk, order_by_params) ==
  OrderByReturned(GetOrderBys(PyList(<<PyList(GivenParams(order_by_params))>>),
                              PyStr(pk), model, NoErrors))

(* index from the return of add_pagination (p) on *)
IndexPaginated(p, order_by_args) ==
  IF p.x # NoExc
  THEN ExceptClause(<<"Invalid">>, TRUE,
                    <<"add_order_by", "_filter_query", "add_pagination">>,
                    order_by_args,
         Viewed("returned", NoExc, BAD_REQUEST_STATUS,
                AddToErrors(NoErrors, PyStr("page"), p.x.msg), "",
                <<"add_order_by", "_filter_query", "add_pagination">>,
                order_by_args),
         ViewEscaped(p.x, <<"add_order_by", "_filter_query", "add_pagination">>,
                     order_by_args))
  ELSE Viewed("returned", NoExc, 200, NoErrors, "",
              <<"add_order_by", "_filter_query", "add_pagination",
                "_headers_control">>,
              order_by_args)

(* index from the return of add_order_by (o) on *)
IndexOrdered(o, paginator) ==
  IF o.x # NoExc
  THEN ExceptClause(<<"Invalid">>, FALSE, <<"add_order_by">>, o.order_by_args,
                    ViewEscaped(o.x, <<"add_order_by">>, o.order_by_args),
                    ViewEscaped(o.x, <<"add_order_by">>, o.order_by_args))
  ELSE IndexPaginated(add_pagination(paginator), o.order_by_args)

(* index of a resource of the model, get_params being request.GET *)
index(model, pk, get_params) ==
  IndexOrdered(add_order_by(model, pk, get_params), get_params.paginator)

----------------------------------------------------------------------------
(* The views as a state machine: view holds the last request served by a   *)
(* resource instance made for it (ReadonlyResources.__init__ binds the     *)
(* primary key 'uuid' and a query builder of its own).                     *)

(* the models of the resource classes of resources.py *)
ResourceModels == {"Package", "Pipeline"}

SearchQueries ==
  {[has_filter |-> TRUE, filter |-> f, has_order_by |-> TRUE, order_by |-> o] :
     f \in QueryFilters, o \in {PyNone, PyList(<<Strs(<<"description", "desc">>)>>),
                                PyList(<<Strs(<<"gonzo", "uuid", "asc">>)>>),
                                PyList(<<Strs(<<"description", "sideways">>)>>)}}
  \cup
  {[has_filter |-> hf, filter |-> IF hf THEN GoodTerm1 ELSE PyNone,
    has_order_by |-> FALSE, order_by |-> PyNone] : hf \in BOOLEAN}

Paginators == {"absent", "valid", "invalid"}

SearchBodies ==
  {[json |-> TRUE, has_query |-> TRUE, has_filter |-> s.has_filter,
    filter |-> s.filter, has_order_by |-> s.has_order_by, order_by |-> s.order_by,
    paginator |-> p] : s \in SearchQueries, p \in Paginators}
  \cup
  {[json |-> j, has_query |-> FALSE, has_filter |-> FALSE, filter |-> PyNone,
    has_order_by |-> FALSE, order_by |-> PyNone, paginator |-> "absent"] :
     j \in BOOLEAN}

OrderByValues(S) == {PyNone} \cup {PyStr(s) : s \in S}

GetParams ==
  {[order_by_attribute |-> a, order_by_subattribute |-> s,
    order_by_direction |-> d, paginator |-> p] :
     a \in OrderByValues({"", "description", "origin_pipeline", "gonzo"}),
     s \in OrderByValues({"uuid", "monkey"}),
     d \in OrderByValues({"", "asc", "desc", "sideways"}),
     p \in Paginators}

NoRequest ==
  [json |-> FALSE, has_query |-> FALSE, has_filter |-> FALSE, filter |-> PyNone,
   has_order_by |-> FALSE, order_by |-> PyNone, paginator |-> "absent",
   order_by_attribute |-> PyNone, order_by_subattribute |-> PyNone,
   order_by_direction |-> PyNone]

View(op, model, request, v) ==
  [op |-> op, model |-> model, request |-> request, outcome |-> v.outcome,
   exc |-> v.exc, status |-> v.status, errors |-> v.errors, error |-> v.error,
   steps |-> v.steps, order_by_args |-> v.order_by_args]

NoView ==
  View("", "", NoRequest, Viewed("", NoExc, 0, NoErrors, "", <<>>, <<>>))

InitViewing == view = NoView

ServeSearch ==
  /\ \E model \in ResourceModels, body \in SearchBodies :
       \E v \in {search(model, "uuid", body)} :
         view' = View("search", model,
                      [NoRequest EXCEPT !.json = body.json,
                         !.has_query = body.has_query,
                         !.has_filter = body.has_filter, !.filter = body.filter,
                         !.has_order_by = body.has_order_by,
                         !.order_by = body.order_by,
                         !.paginator = body.paginator],
                      v)
  /\ UNCHANGED <<building, routing, sharing>>

ServeIndex ==
  /\ \E model \in ResourceModels, get_params \in GetParams :
       \E v \in {index(model, "uuid", get_params)} :
         view' = View("index", model,
                      [NoRequest EXCEPT
                         !.order_by_attribute = get_params.order_by_attribute,
                         !.order_by_subattribute = get_params.order_by_subattribute,
                         !.order_by_direction = get_params.order_by_direction,
                         !.paginator = get_params.paginator],
                      v)
  /\ UNCHANGED <<building, routing, sharing>>

NextViews ==
  \/ ServeSearch
  \/ ServeIndex

----------------------------------------------------------------------------
(* One QueryBuilder shared by two threads, each making one get_query_set   *)
(* call. The instance is the one of the variables model_name, primary_key  *)
(* and errors; threads[t] holds the call of the thread t: pc is the step   *)
(* of get_query_set it takes next, the rest its local variables and how    *)
(* the call ended. A step is a section of get_query_set that the model     *)
(* takes as a whole: clear_errors, the translation of the filter, the      *)
(* translation of order_by, then, in _raise_search_parse_error_if_necessary,*)
(* the test of self.errors, the copy, and clear_errors with the raise, or  *)
(* else the operations on the store. The interpreter may switch threads    *)
(* within a section as well: every interleaving taken here is one of the   *)
(* program's.                                                              *)

Threads == {1, 2}

Other(t) == 3 - t

Query(has_filter, filter, has_order_by, order_by) ==
  [has_filter |-> has_filter, filter |-> filter, has_order_by |-> has_order_by,
   order_by |-> order_by]

(* the queries of the threads: two that translate without error, then one  *)
(* with an unknown attribute in the filter, one with an unknown attribute  *)
(* in order_by and one whose filter is a JSON object                       *)
SharedQueries ==
  {Query(TRUE, GoodTerm1, FALSE, PyNone),
   Query(TRUE, GoodTerm2, TRUE, PyList(<<Strs(<<"description", "desc">>)>>)),
   Query(TRUE, BadAttributeTerm, FALSE, PyNone),
   Query(TRUE, GoodTerm1, TRUE, PyList(<<Strs(<<"origin_pipeline", "monkey", "asc">>)>>)),
   Query(TRUE, PyList(<<PyStr("not"), AnObject>>), FALSE, PyNone)}

NoQuery == Query(FALSE, PyNone, FALSE, PyNone)

NotCalled ==
  [pc |-> "call", query |-> NoQuery, q |-> NoQ, order_bys |-> <<>>,
   copied |-> NoErrors, outcome |-> "", exc |-> NoExc, raised |-> NoErrors,
   handle |-> NoHandle, overlapped |-> FALSE]

InFlight(th) == th.pc \notin {"call", "done"}

(* threads after the thread t took a step that left its call as th: a call *)
(* is overlapped once a step of one call is taken while the other call is  *)
(* in flight                                                               *)
Stepped(t, th) ==
  [u \in Threads |->
     IF u = t THEN [th EXCEPT !.overlapped = @ \/ InFlight(threads[Other(t)])]
     ELSE [threads[u] EXCEPT !.overlapped = @ \/ InFlight(threads[u])]]

(* the call of th ended *)
Done(th, outcome, exc, raised, handle) ==
  [th EXCEPT !.pc = "done", !.outcome = outcome, !.exc = exc, !.raised = raised,
             !.handle = handle]

(* the translation of the filter keeping its errors in a map of its own    *)
FilterStepUnshared(th, e) ==
  [th |-> [th EXCEPT !.pc = "order_by",
                     !.q = GetQueryExpressionPrivate(
                             DictGet(th.query.has_filter, th.query.filter),
                             NoErrors).q],
   e |-> e]

(* query_expression = self._get_query_expression(query_as_dict.get('filter')) *)
FilterResult(th, f) ==
  IF f.x # NoExc
  THEN [th |-> Done(th, "escaped", f.x, NoErrors, NoHandle), e |-> f.e]
  ELSE [th |-> [th EXCEPT !.pc = "order_by", !.q = f.q], e |-> f.e]

FilterStep(th, e) ==
  FilterResult(th, GetQueryExpressionPrivate(
                     DictGet(th.query.has_filter, th.query.filter), e))

(* order_bys = self._get_order_bys(query_as_dict.get('order_by'),          *)
(*                                 self.primary_key)                       *)
OrderByResult(th, o) ==
  IF o.x # NoExc
  THEN [th |-> Done(th, "escaped", o.x, NoErrors, NoHandle), e |-> o.e]
  ELSE [th |-> [th EXCEPT !.pc = "test", !.order_bys = o.l], e |-> o.e]

OrderByStep(th, model, pk, e) ==
  OrderByResult(th, GetOrderBysPrivate(
                      DictGet(th.query.has_order_by, th.query.order_by),
                      PyStr(pk), PyStr(model), e))

InitSharing == threads = [t \in Threads |-> NotCalled]

(* the thread t calls get_query_set *)
ThreadCall ==
  /\ \E t \in Threads, query \in SharedQueries :
       /\ threads[t].pc = "call"
       /\ threads' = Stepped(t, [threads[t] EXCEPT !.pc = "clear_errors",
                                                   !.query = query])
  /\ UNCHANGED <<model_name, primary_key, errors, call, before, routing, viewing>>

(* self.clear_errors() *)
ThreadClearErrors ==
  /\ \E t \in Threads :
       /\ threads[t].pc = "clear_errors"
       /\ errors' = ClearErrors(errors)
       /\ threads' = Stepped(t, [threads[t] EXCEPT !.pc = "filter"])
  /\ UNCHANGED <<model_name, primary_key, call, before, routing, viewing>>

ThreadFilter ==
  /\ \E t \in Threads :
       /\ threads[t].pc = "filter"
       /\ \E r \in {FilterStep(threads[t], errors)} :
            /\ errors' = r.e
            /\ threads' = Stepped(t, r.th)
  /\ UNCHANGED <<model_name, primary_key, call, before, routing, viewing>>

ThreadOrderBy ==
  /\ \E t \in Threads :
       /\ threads[t].pc = "order_by"
       /\ \E r \in {OrderByStep(threads[t], model_name, primary_key, errors)} :
            /\ errors' = r.e
            /\ threads' = Stepped(t, r.th)
  /\ UNCHANGED <<model_name, primary_key, call, before, routing, viewing>>

(* if self.errors: *)
ThreadTest ==
  /\ \E t \in Threads :
       /\ threads[t].pc = "test"
       /\ threads' = Stepped(t, [threads[t] EXCEPT
                                   !.pc = IF errors # NoErrors THEN "copy"
                                          ELSE "store"])
  /\ UNCHANGED <<model_name, primary_key, errors, call, before, routing, viewing>>

(* errors = self.errors.copy() *)
ThreadCopy ==
  /\ \E t \in Threads :
       /\ threads[t].pc = "copy"
       /\ threads' = Stepped(t, [threads[t] EXCEPT !.pc = "raise",
                                                   !.copied = errors])
  /\ UNCHANGED <<model_name, primary_key, errors, call, before, routing, viewing>>

(* self.clear_errors(); raise SearchParseError(errors) *)
ThreadRaise ==
  /\ \E t \in Threads :
       /\ threads[t].pc = "raise"
       /\ errors' = ClearErrors(errors)
       /\ threads' = Stepped(t, Done(threads[t], "raised", NoExc,
                                     threads[t].copied, NoHandle))
  /\ UNCHANGED <<model_name, primary_key, call, before, routing, viewing>>

(* _get_model_manager, filter, order_by and the return *)
ThreadStore ==
  /\ \E t \in Threads :
       /\ threads[t].pc = "store"
       /\ threads' = Stepped(t, Done(threads[t], "returned", NoExc, NoErrors,
                                     [model |-> model_name, q |-> threads[t].q,
                                      order_bys |-> threads[t].order_bys]))
  /\ UNCHANGED <<model_name, primary_key, errors, call, before, routing, viewing>>

NextShared ==
  \/ ThreadCall
  \/ ThreadClearErrors
  \/ ThreadFilter
  \/ ThreadOrderBy
  \/ ThreadTest
  \/ ThreadCopy
  \/ ThreadRaise
  \/ ThreadStore

----------------------------------------------------------------------------
(* The state machine: one QueryBuilder instance and the public calls made  *)
(* on it, one after the other. call holds the last call: the method, its   *)
(* arguments and how it ended; errors is self.errors; before holds the     *)
(* call made before the last one and the self.errors it left.              *)

Call(op, has_filter, filter, has_order_by, order_by, pk, ended) ==
  [op |-> op, has_filter |-> has_filter, filter |-> filter,
   has_order_by |-> has_order_by, order_by |-> order_by, pk |-> pk,
   outcome |-> ended.outcome, exc |-> ended.exc, raised |-> ended.raised,
   q |-> ended.q, order_bys |-> ended.order_bys, store |-> ended.store,
   handle |-> ended.handle]

NoCall ==
  Call("__init__", FALSE, PyNone, FALSE, PyNone, PyNone,
       Ended("returned", NoExc, NoErrors, NoQ, <<>>, <<>>, NoHandle, NoErrors))

(* The exploration is bounded in depth: a call is made on the instance as  *)
(* constructed, or after one of the calls below, which between them leave  *)
(* the instance in each way a call can leave it (returned, raised,         *)
(* escaped; self.errors empty or not).                                     *)
LeadingCall(c) ==
  \/ c.op \in {"__init__", "clear_errors"}
  \/ c.op = "get_query_expression" /\ c.filter \in {GoodTerm1, BadAttributeTerm}
  \/ c.op = "get_order_bys" /\ c.pk = PyStr("uuid")
     /\ c.order_by = PyList(<<Strs(<<"gonzo">>)>>)
  \/ c.op = "get_query_set" /\ ~c.has_filter /\ ~c.has_order_by
  \/ c.op = "get_query_set" /\ c.has_filter /\ c.has_order_by
     /\ <<c.filter, c.order_by>> \in
          {<<GoodTerm1, PyNone>>,
           <<BadAttributeTerm, PyList(<<Strs(<<"origin_pipeline", "monkey", "asc">>)>>)>>,
           <<BadRelationTerm, PyNum(5)>>}

(* the instance has been used at most once *)
Leading == before.call = NoCall /\ LeadingCall(call)

Init ==
  /\ \E b \in Builders : model_name = b[1] /\ primary_key = b[2]
  /\ errors = NoErrors
  /\ call = NoCall
  /\ before = [call |-> NoCall, errors |-> NoErrors]
  /\ InitRouting /\ InitViewing /\ InitSharing

CallGetQuerySet ==
  /\ Leading
  /\ \E has_filter \in BOOLEAN, has_order_by \in BOOLEAN :
       \E filter \in IF has_filter THEN QueryFilters ELSE {PyNone},
          order_by \in IF has_order_by THEN QueryOrderBys ELSE {PyNone} :
         \E ended \in {GetQuerySet(has_filter, filter, has_order_by, order_by,
                                   model_name, primary_key, errors)} :
             /\ call' = Call("get_query_set", has_filter, filter, has_order_by,
                             order_by, PyNone, ended)
             /\ errors' = ended.e
             /\ before' = [call |-> call, errors |-> errors]
             /\ UNCHANGED <<model_name, primary_key, routing, viewing, sharing>>

CallGetQueryExpression ==
  /\ Leading
  /\ \E filter \in Filters :
       \E ended \in {GetQueryExpression(filter, errors)} :
           /\ call' = Call("get_query_expression", TRUE, filter, FALSE, PyNone,
                           PyNone, ended)
           /\ errors' = ended.e
           /\ before' = [call |-> call, errors |-> errors]
           /\ UNCHANGED <<model_name, primary_key, routing, viewing, sharing>>

CallGetOrderBys ==
  /\ Leading
  /\ \E order_by \in OrderBys, pk \in PrimaryKeys :
       \E ended \in {GetOrderBys(order_by, PyStr(pk), model_name, errors)} :
           /\ call' = Call("get_order_bys", FALSE, PyNone, TRUE, order_by,
                           PyStr(pk), ended)
           /\ errors' = ended.e
           /\ before' = [call |-> call, errors |-> errors]
           /\ UNCHANGED <<model_name, primary_key, routing, viewing, sharing>>

CallClearErrors ==
  /\ Leading
  /\ call' = Call("clear_errors", FALSE, PyNone, FALSE, PyNone, PyNone,
                  Ended("returned", NoExc, NoErrors, NoQ, <<>>, <<>>, NoHandle,
                        ClearErrors(errors)))
  /\ errors' = ClearErrors(errors)
  /\ before' = [call |-> call, errors |-> errors]
  /\ UNCHANGED <<model_name, primary_key, routing, viewing, sharing>>

Next ==
  \/ CallGetQuerySet
  \/ CallGetQueryExpression
  \/ CallGetOrderBys
  \/ CallClearErrors

Spec == Init /\ [][Next]_vars

----------------------------------------------------------------------------
(* The specifications of the route builder, of the views and of the shared *)
(* query builder; in each the variables of the other machines stay as      *)
(* constructed.                                                            *)

InitBuilding ==
  /\ model_name = "Package" /\ primary_key = "uuid"
  /\ errors = NoErrors
  /\ call = NoCall
  /\ before = [call |-> NoCall, errors |-> NoErrors]

InitRoutes == InitBuilding /\ InitRouting /\ InitViewing /\ InitSharing

SpecRoutes == InitRoutes /\ [][NextRoutes]_vars


InitViews == InitBuilding /\ InitRouting /\ InitViewing /\ InitSharing

SpecViews == InitViews /\ [][NextViews]_vars


InitShared == InitBuilding /\ InitRouting /\ InitViewing /\ InitSharing

SpecShared == InitShared /\ [][NextShared]_vars


----------------------------------------------------------------------------
(* The properties. They are stated over the last call (call), the          *)
(* self.errors it left (errors) and the call before it (before).           *)

(* what the filter translation of the last call records, given an empty map *)
FilterOfCall ==
  GetQueryExpressionPrivate(DictGet(call.has_filter, call.filter), NoErrors)

(* what the order-by translation of the last get_query_set call records,   *)
(* given an empty map                                                      *)
OrderByOfCall ==
  GetOrderBysPrivate(DictGet(call.has_order_by, call.order_by),
                     PyStr(primary_key), PyStr(model_name), NoErrors)

FilterValid == call.has_filter /\ FilterOfCall.x = NoExc /\ FilterOfCall.e = NoErrors

OrderByValid == OrderByOfCall.x = NoExc /\ OrderByOfCall.e = NoErrors

(* the union of two error maps *)
UnionOfErrors(f, g) ==
  [k \in DOMAIN f \cup DOMAIN g |-> IF k \in DOMAIN g THEN g[k] ELSE f[k]]

RecordedByCall == UnionOfErrors(FilterOfCall.e, OrderByOfCall.e)

(* C1: get_query_set either raises SearchParseError or returns a query     *)
(* handle, never both and never neither; it raises, carrying the whole     *)
(* error map, exactly when the filter or the order-by translation of the   *)
(* call recorded an error; the store operations are performed only when    *)
(* the error map is empty.                                                 *)
C1_RaisesOrReturnsHandle ==
  call.op = "get_query_set" =>
    /\ call.outcome \in {"raised", "returned"}
    /\ (call.outcome = "raised") <=> (RecordedByCall # NoErrors)
    /\ call.outcome = "raised" =>
         call.raised = RecordedByCall /\ call.handle = NoHandle
    /\ call.outcome = "returned" => call.handle # NoHandle
    /\ call.store # <<>> => RecordedByCall = NoErrors

(* C2: after a get_query_set call that returned or raised SearchParseError *)
(* self.errors is empty, whatever calls were made before it, and the map a *)
(* raised SearchParseError carries holds the errors of that call alone:    *)
(* what the call records on an instance whose map is empty.                *)
C2_ErrorsEmptyAfterEveryCall ==
  (call.op = "get_query_set" /\ call.outcome \in {"raised", "returned"}) =>
    /\ errors = NoErrors
    /\ call.outcome = "raised" => call.raised = RecordedByCall

(* a second get_query_set raises after a first one raised other errors *)
C2_Witness ==
  /\ before.call.op = "get_query_set" /\ before.call.outcome = "raised"
  /\ call.op = "get_query_set" /\ call.outcome = "raised"
  /\ DOMAIN call.raised \cap DOMAIN before.call.raised = {}
  /\ errors = NoErrors

(* C3: the map a get_query_set call raises is the union of what the filter *)
(* translation and the order-by translation record; with a valid filter    *)
(* and an order_by that is not valid no handle is returned and the map     *)
(* raised holds the order-by errors only.                                  *)
C3_RaisedMapIsUnion ==
  call.op = "get_query_set" =>
    /\ call.outcome = "raised" =>
         call.raised = UnionOfErrors(FilterOfCall.e, OrderByOfCall.e)
    /\ (FilterValid /\ OrderByOfCall.x = NoExc /\ OrderByOfCall.e # NoErrors) =>
         /\ call.outcome = "raised"
         /\ call.raised = OrderByOfCall.e
         /\ call.handle = NoHandle
         /\ call.store = <<>>

(* a call whose map holds errors of both translations, then a call with a  *)
(* valid filter and one invalid directive                                  *)
C3_Witness ==
  /\ before.call.op = "get_query_set" /\ before.call.outcome = "raised"
  /\ before.call.filter = BadAttributeTerm
  /\ {"Package.gonzo", "Pipeline.monkey"} \subseteq DOMAIN before.call.raised
  /\ call.op = "get_query_set" /\ call.filter = GoodTerm1
  /\ call.order_by = PyList(<<Strs(<<"origin_pipeline", "monkey", "asc">>)>>)
  /\ call.outcome = "raised"
  /\ DOMAIN call.raised = {"Pipeline.monkey"}

(* the last call ended as ended, a call with the same arguments, did *)
EndedAs(ended) ==
  /\ call.outcome = ended.outcome
  /\ call.exc = ended.exc
  /\ call.q = ended.q
  /\ call.order_bys = ended.order_bys
  /\ errors = ended.e

SameArguments(c, d) ==
  /\ c.op = d.op
  /\ c.filter = d.filter
  /\ c.order_by = d.order_by
  /\ c.pk = d.pk

(* C4: get_query_expression and get_order_bys end as they do on an         *)
(* instance whose error map is empty, whatever the earlier call left; a    *)
(* second call with the same valid input returns an equal result and both  *)
(* leave the error map empty.                                              *)
C4_PublicTranslatorsStartClean ==
  /\ call.op = "get_query_expression" =>
       EndedAs(GetQueryExpression(call.filter, NoErrors))
  /\ call.op = "get_order_bys" =>
       EndedAs(GetOrderBys(call.order_by, call.pk, model_name, NoErrors))
  /\ (call.op \in {"get_query_expression", "get_order_bys"}
      /\ SameArguments(before.call, call)
      /\ before.call.outcome = "returned" /\ before.errors = NoErrors) =>
       /\ call.outcome = "returned"
       /\ call.q = before.call.q
       /\ call.order_bys = before.call.order_bys
       /\ errors = NoErrors

(* a valid filter translated after a call that left errors *)
C4_Witness ==
  /\ before.call.op = "get_query_expression" /\ before.errors # NoErrors
  /\ call.op = "get_query_expression" /\ call.filter = GoodTerm1
  /\ call.outcome = "returned" /\ call.q # NoQ
  /\ errors = NoErrors

(* C5 as stated: the filter and order_by keys are optional: with no filter *)
(* key (order_by absent or valid) get_query_set returns a handle over the  *)
(* target model; with no order_by key (filter valid) it returns a handle   *)
(* ordered by the bound primary key.                                       *)
C5_FilterAndOrderByOptional ==
  call.op = "get_query_set" =>
    /\ (~call.has_filter /\ (~call.has_order_by \/ OrderByValid)) =>
         call.outcome = "returned" /\ call.handle.model = model_name
    /\ (~call.has_order_by /\ FilterValid) =>
         /\ call.outcome = "returned"
         /\ call.handle.order_bys = <<PyStr(primary_key)>>

(* C5, amended: the order_by key is optional and the filter key is not:    *)
(* with no order_by key (filter valid) get_query_set returns a handle over *)
(* the target model ordered by the bound primary key; with no filter key   *)
(* it returns no handle, and (order_by absent or valid) raises a           *)
(* SearchParseError whose map is the malformed-query report: the entry     *)
(* 'Malformed query error' and the entry of the TypeError caught.          *)
C5_OrderByOptionalFilterRequired ==
  call.op = "get_query_set" =>
    /\ (~call.has_order_by /\ FilterValid) =>
         /\ call.outcome = "returned"
         /\ call.handle.model = model_name
         /\ call.handle.order_bys = <<PyStr(primary_key)>>
         /\ call.handle.q = call.q /\ call.q # NoQ
    /\ ~call.has_filter =>
         /\ call.outcome # "returned" /\ call.handle = NoHandle
         /\ (~call.has_order_by \/ OrderByValid) =>
              /\ call.outcome = "raised"
              /\ "Malformed query error" \in DOMAIN call.raised
              /\ call.raised["Malformed query error"]
                   = "The submitted query was malformed"
              /\ Cardinality(DOMAIN call.raised) = 2

(* a query with neither key raises, then a query with a valid filter and   *)
(* no order_by key returns a handle ordered by a primary key that is not   *)
(* 'uuid'                                                                  *)
C5_Witness ==
  /\ before.call.op = "get_query_set"
  /\ ~before.call.has_filter /\ ~before.call.has_order_by
  /\ before.call.outcome = "raised"
  /\ call.op = "get_query_set" /\ call.has_filter /\ ~call.has_order_by
  /\ call.outcome = "returned"
  /\ call.handle.order_bys = <<PyStr("id")>>

(* C6: no call lets an exception other than SearchParseError go: whatever  *)
(* the filter and the order_by are, a call returns or raises               *)
(* SearchParseError.                                                       *)
C6_OnlySearchParseErrorEscapes ==
  call.op \in {"get_query_set", "get_query_expression", "get_order_bys"} =>
    call.outcome # "escaped" /\ call.exc = NoExc

(* The simple term of the last call: its elements, the model the terminal  *)
(* attribute belongs to, the terminal attribute, the field path, the       *)
(* relation and the value.                                                 *)
Term == call.filter.l

IsTerm4 == call.op = "get_query_expression" /\ call.filter \in Terms4

IsTerm5 == call.op = "get_query_expression" /\ call.filter \in Terms5

TermModel ==
  IF IsTerm4 THEN Term[1].s ELSE schema[Term[1].s][Term[2].s].foreign_model

TermAttribute == IF IsTerm4 THEN Term[2].s ELSE Term[3].s

TermPath == IF IsTerm4 THEN Term[2].s ELSE Term[2].s \o "__" \o Term[3].s

TermRelation == IF IsTerm4 THEN Term[3].s ELSE Term[4].s

TermValue == IF IsTerm4 THEN Term[4] ELSE Term[5]

(* the model and the attribute(s) of the term are registered *)
AttributeRegistered ==
  \/ IsTerm4 /\ Term[1].s \in ModelNames /\ Term[2].s \in AttributesOf(Term[1].s)
  \/ IsTerm5 /\ Term[1].s \in ModelNames /\ Term[2].s \in ForeignAttributesOf(Term[1].s)
       /\ Term[3].s \in AttributesOf(schema[Term[1].s][Term[2].s].foreign_model)

TermForeign == schema[TermModel][TermAttribute].foreign_model # ""

(* the relations registered for the terminal attribute *)
TermRelations == IF TermForeign THEN foreign_model_relations ELSE relations

TermRegistered == AttributeRegistered /\ TermRelation \in DOMAIN TermRelations

ResolvedRelation ==
  IF TermRelations[TermRelation] # "" THEN TermRelations[TermRelation] ELSE TermRelation

(* the normalized, converted value of the term *)
TermConverted ==
  Convert(schema[TermModel][TermAttribute].value_converter, Normalize(TermValue),
          NoErrors)

(* the null test of a foreign attribute *)
TermNullTest == TermForeign /\ TermValue = PyNone /\ TermRelation \in {"=", "!="}

(* the value of the leaf: the normalized, converted value, the null test   *)
(* converting None to a Boolean                                            *)
TermLeafValue ==
  IF TermNullTest THEN PyBool(TermRelation = "=") ELSE TermConverted.v

SingleLeaf(key, value) == QNode("AND", FALSE, <<QLeaf(key, value)>>)

(* C7 as stated: for every simple term whose model, attribute(s) and       *)
(* relation are registered get_query_expression returns the single leaf    *)
(* attr__<resolved relation>, or related_attr__attr__<resolved relation>,  *)
(* whose value is the normalized, converted input value, and leaves the    *)
(* error map empty.                                                        *)
C7_RegisteredTermGivesLeaf ==
  TermRegistered =>
    /\ call.outcome = "returned"
    /\ call.q = SingleLeaf(TermPath \o "__" \o ResolvedRelation, TermLeafValue)
    /\ errors = NoErrors

(* C7, amended: for every such term get_query_expression returns that      *)
(* single leaf, and the error map it leaves is what the value converter of *)
(* the attribute records: empty when the attribute has no converter or the *)
(* converter accepts the value, the converter's error (with None as the    *)
(* leaf value) when it rejects the value.                                  *)
C7_RegisteredTermGivesLeafConverterDecides ==
  TermRegistered =>
    /\ call.outcome = "returned"
    /\ call.q = SingleLeaf(TermPath \o "__" \o ResolvedRelation, TermLeafValue)
    /\ errors = TermConverted.e
    /\ schema[TermModel][TermAttribute].value_converter = "" => errors = NoErrors
    /\ (TermValue.t = "str" /\ DatetimeString2Datetime(TermValue) # PyNone) =>
         errors = NoErrors
    /\ (schema[TermModel][TermAttribute].value_converter # ""
        /\ TermValue.t = "str" /\ DatetimeString2Datetime(TermValue) = PyNone) =>
         /\ DOMAIN errors = {"datetime " \o UtilsNormalize(TermValue.s)}
         /\ call.q.ch[1].val = PyNone

(* a five-element term whose relation has an alias and whose value the     *)
(* normalization changes                                                   *)
C7_Witness ==
  /\ IsTerm5 /\ TermRegistered
  /\ TermRelation = "like" /\ TermValue = PyStr("caf(U+00E9)")
  /\ call.q = SingleLeaf(TermPath \o "__contains", PyStr("cafe(U+0301)"))
  /\ errors = NoErrors

(* the term of the last call with another relation *)
WithRelation(r) ==
  IF IsTerm4 THEN PyList(<<Term[1], Term[2], PyStr(r), Term[4]>>)
  ELSE PyList(<<Term[1], Term[2], Term[3], PyStr(r), Term[5]>>)

(* the last call left the predicate and the error map that the term with   *)
(* the relation r gives                                                    *)
SameAsWithRelation(r) == EndedAs(GetQueryExpression(WithRelation(r), NoErrors))

(* C8 as stated: for every attribute of every registered model the term    *)
(* using '=' gives the predicate and the error map of the term using       *)
(* 'exact', and the term using 'like' those of the term using 'contains'.  *)
C8_AliasesResolveAlike ==
  AttributeRegistered =>
    /\ TermRelation = "=" => SameAsWithRelation("exact")
    /\ TermRelation = "like" => SameAsWithRelation("contains")

(* C8, amended: that holds for every attribute that declares no            *)
(* foreign_model; for an attribute that declares one, '=' is the null test *)
(* and 'exact', 'like' and 'contains' are not permitted, each recorded     *)
(* under its own key.                                                      *)
C8_AliasesResolveAlikeOffForeign ==
  AttributeRegistered =>
    /\ (~TermForeign /\ TermRelation = "=") => SameAsWithRelation("exact")
    /\ (~TermForeign /\ TermRelation = "like") => SameAsWithRelation("contains")
    /\ (TermForeign /\ TermRelation \in {"exact", "like", "contains"}) =>
         /\ DOMAIN errors = {TermModel \o "." \o TermAttribute \o "." \o TermRelation}
         /\ call.q = SingleLeaf(TermPath \o "__None", Normalize(TermValue))
    /\ (TermForeign /\ TermRelation = "=") =>
         errors = NoErrors /\ call.q.ch[1].key = TermPath \o "__isnull"

(* 'like' on an attribute reached through a related attribute *)
C8_Witness ==
  /\ IsTerm5 /\ AttributeRegistered /\ ~TermForeign
  /\ TermRelation = "like"
  /\ call.q.kind = "Q" /\ call.q.ch[1].key = TermPath \o "__contains"
  /\ errors = NoErrors

(* C9: for every attribute that declares a foreign_model, as the terminal  *)
(* attribute of a 4- or 5-element term, '=' with None gives the leaf       *)
(* <path>__isnull with the value True and '!=' with None the same leaf key *)
(* with the value False, and the error map is left empty.                  *)
C9_NullTestOfForeignAttribute ==
  (AttributeRegistered /\ TermNullTest) =>
    /\ call.outcome = "returned"
    /\ call.q = SingleLeaf(TermPath \o "__isnull", PyBool(TermRelation = "="))
    /\ errors = NoErrors

(* '!=' None on a foreign attribute of a related model *)
C9_Witness ==
  /\ IsTerm5 /\ AttributeRegistered /\ TermNullTest
  /\ call.filter.l[1] = PyStr("Package") /\ TermPath = "origin_pipeline__location_set"
  /\ TermRelation = "!="
  /\ call.q.ch[1].val = PyBool(FALSE)

(* C10: a 4-element term whose model is registered and whose attribute is  *)
(* not in the schema of that model gives no predicate, and the error map   *)
(* holds '<Model>.<attr>' : 'Searching on <Model>.<attr> is not permitted' *)
(* and 'Malformed query error' : 'The submitted query was malformed'.      *)
C10_UnknownAttributeGivesNoPredicate ==
  (IsTerm4 /\ Term[1].s \in ModelNames /\ Term[2].s \notin AttributesOf(Term[1].s)) =>
    /\ call.outcome = "returned"
    /\ call.q = NoQ
    /\ {Term[1].s \o "." \o Term[2].s, "Malformed query error"} \subseteq DOMAIN errors
    /\ errors[Term[1].s \o "." \o Term[2].s]
         = "Searching on " \o Term[1].s \o "." \o Term[2].s \o " is not permitted"
    /\ errors["Malformed query error"] = "The submitted query was malformed"

(* the unknown attribute of the test data, on a used instance *)
C10_Witness ==
  /\ before.call.op = "get_query_set"
  /\ call.op = "get_query_expression" /\ call.filter = BadAttributeTerm
  /\ call.q = NoQ
  /\ "Package.gonzo" \in DOMAIN errors


----------------------------------------------------------------------------
(* Relations of foreign attributes, malformed expressions, connectives     *)

(* the key under which a relation that is not permitted is recorded *)
TermRelationKey == TermModel \o "." \o TermAttribute \o "." \o TermRelation

(* C11: for a terminal attribute that declares a foreign_model the         *)
(* relations accepted are 'isnull', '=' and '!=' and no other: any other   *)
(* relation, the general ones included, records under                      *)
(* '<Model>.<attr>.<relation>' the message 'The relation <relation> is not *)
(* permitted for <Model>.<attr>', and no exception escapes the call.       *)
C11_ForeignAttributeRelations ==
  (AttributeRegistered /\ TermForeign) =>
    /\ call.outcome = "returned"
    /\ TermRelation \in {"isnull", "=", "!="} =>
         errors = NoErrors /\ call.q # NoQ
    /\ TermRelation \notin {"isnull", "=", "!="} =>
         /\ TermRelationKey \in DOMAIN errors
         /\ errors[TermRelationKey]
              = "The relation " \o TermRelation \o " is not permitted for "
                \o TermModel \o "." \o TermAttribute

(* a general relation on a foreign attribute of a related model *)
C11_Witness ==
  /\ IsTerm5 /\ AttributeRegistered /\ TermForeign
  /\ TermRelation = "in"
  /\ call.outcome = "returned"
  /\ TermRelationKey \in DOMAIN errors

(* C12 as stated: for every filter expression, if evaluating it records at *)
(* least one error, at the top level or in a nested operand, then          *)
(* get_query_expression returns None rather than a predicate.              *)
C12_AnyErrorGivesNone ==
  (call.op = "get_query_expression" /\ call.outcome = "returned"
   /\ errors # NoErrors) =>
    call.q = NoQ

(* C12, amended: get_query_expression returns None exactly when the        *)
(* evaluation recorded 'Malformed query error', that is when a level of    *)
(* the expression raised one of the exceptions caught; a relation that is  *)
(* not permitted for a registered attribute records its error and the      *)
(* predicate <path>__None is still returned, and get_query_set returns no  *)
(* handle for a filter that recorded an error.                             *)
C12_NoneIffMalformedRecorded ==
  /\ (call.op = "get_query_expression" /\ call.outcome = "returned") =>
       /\ call.q = NoQ <=> "Malformed query error" \in DOMAIN errors
       /\ (AttributeRegistered /\ TermRelation \notin DOMAIN TermRelations) =>
            /\ call.q = SingleLeaf(TermPath \o "__None", TermConverted.v)
            /\ TermRelationKey \in DOMAIN errors
  /\ (call.op = "get_query_set" /\ FilterOfCall.x = NoExc
      /\ FilterOfCall.e # NoErrors) =>
       call.outcome # "returned" /\ call.handle = NoHandle

(* the relation '<' on a foreign attribute: the predicate is returned with *)
(* the error recorded                                                      *)
C12_Witness ==
  /\ call.op = "get_query_expression" /\ call.filter = BadRelationTerm
  /\ call.outcome = "returned"
  /\ call.q = SingleLeaf("origin_pipeline__None", PyNum(2))
  /\ DOMAIN errors = {"Package.origin_pipeline.<"}

(* the filter of the last call is a list whose first element is none of    *)
(* 'and', 'or', 'not'                                                      *)
IsSimpleList ==
  /\ call.op = "get_query_expression"
  /\ call.filter.t = "list" /\ Len(call.filter.l) >= 1
  /\ call.filter.l[1] \notin {PyStr("and"), PyStr("or"), PyStr("not")}

(* C13: a list whose first element is not 'and', 'or' or 'not' is accepted *)
(* as a simple term only when it has exactly 4 or exactly 5 elements; for  *)
(* every other length the evaluator records 'Malformed query error' and    *)
(* returns no predicate.                                                   *)
C13_TermOfFourOrFiveElements ==
  (IsSimpleList /\ Len(call.filter.l) \notin {4, 5}) =>
    /\ call.outcome = "returned"
    /\ call.q = NoQ
    /\ "Malformed query error" \in DOMAIN errors

(* the last call evaluated a connective ['and'|'or', ops], ops a list *)
IsConnective ==
  /\ call.op = "get_query_expression"
  /\ call.filter.t = "list" /\ Len(call.filter.l) = 2
  /\ call.filter.l[1] \in {PyStr("and"), PyStr("or")}
  /\ call.filter.l[2].t = "list"

(* the last call evaluated ['not', x] *)
IsNegation ==
  /\ call.op = "get_query_expression"
  /\ call.filter.t = "list" /\ Len(call.filter.l) = 2
  /\ call.filter.l[1] = PyStr("not")

(* the evaluation of x returns None *)
GivesNone(x) ==
  Python2QueryExpr(x, NoErrors).x = NoExc /\ Python2QueryExpr(x, NoErrors).q = NoQ

(* the operands of the connective *)
Ops == call.filter.l[2].l

(* C14: ['and', ops] and ['or', ops] return None with 'Malformed query     *)
(* error' in the error map if ops is empty or if the evaluation of any     *)
(* operand returns None, a None operand never being dropped; so does       *)
(* ['not', x] when x evaluates to None.                                    *)
C14_NullOperandGivesNull ==
  /\ (IsConnective /\ (Ops = <<>> \/ \E i \in 1..Len(Ops) : GivesNone(Ops[i]))) =>
       /\ call.outcome = "returned"
       /\ call.q = NoQ
       /\ "Malformed query error" \in DOMAIN errors
  /\ (IsNegation /\ GivesNone(call.filter.l[2])) =>
       /\ call.outcome = "returned"
       /\ call.q = NoQ
       /\ "Malformed query error" \in DOMAIN errors

(* the evaluation of x returns a predicate and records nothing *)
GivesPredicate(x) ==
  /\ Python2QueryExpr(x, NoErrors).x = NoExc
  /\ Python2QueryExpr(x, NoErrors).e = NoErrors
  /\ Python2QueryExpr(x, NoErrors).q # NoQ

(* what an operand's predicate q puts in the child list of a predicate     *)
(* with the connector conn: itself, or, when it is a plain predicate of    *)
(* that connector or of one child, its own children                        *)
OperandChildren(q, conn) ==
  IF q.neg \/ (q.conn # conn /\ Len(q.ch) # 1) THEN <<q>> ELSE q.ch

RECURSIVE ChildrenInOrder(_, _, _)
ChildrenInOrder(ops, i, conn) ==
  IF i > Len(ops) THEN <<>>
  ELSE OperandChildren(Python2QueryExpr(ops[i], NoErrors).q, conn)
       \o ChildrenInOrder(ops, i + 1, conn)

RECURSIVE LeavesOf(_)
(* the leaves of a predicate *)
LeavesOf(q) ==
  IF q.kind = "leaf" THEN {q}
  ELSE UNION {LeavesOf(q.ch[i]) : i \in 1..Len(q.ch)}

RECURSIVE QHolds(_, _)
(* the truth value of a predicate on a row, a row being given by the set   *)
(* of the leaves that hold on it                                           *)
QHolds(q, row) ==
  IF q.kind = "leaf" THEN q \in row
  ELSE (q.neg # (IF q.conn = "AND"
                 THEN \A i \in 1..Len(q.ch) : QHolds(q.ch[i], row)
                 ELSE \E i \in 1..Len(q.ch) : QHolds(q.ch[i], row)))

ConnectiveOf(c, ops) == PyList(<<c, PyList(ops)>>)

(* the predicates the three groupings of x, y, z under c give agree on     *)
(* every row                                                               *)
GroupingsAgree(c, x, y, z) ==
  \E flat \in {Python2QueryExpr(ConnectiveOf(c, <<x, y, z>>), NoErrors)},
     left \in {Python2QueryExpr(
                 ConnectiveOf(c, <<ConnectiveOf(c, <<x, y>>), z>>), NoErrors)},
     right \in {Python2QueryExpr(
                  ConnectiveOf(c, <<x, ConnectiveOf(c, <<y, z>>)>>), NoErrors)} :
    /\ flat.q # NoQ /\ left.q # NoQ /\ right.q # NoQ
    /\ flat.e = NoErrors /\ left.e = NoErrors /\ right.e = NoErrors
    /\ \A row \in SUBSET LeavesOf(flat.q) :
         /\ QHolds(left.q, row) = QHolds(flat.q, row)
         /\ QHolds(right.q, row) = QHolds(flat.q, row)

(* C15: ['and', ops] and ['or', ops] with two or more valid operands give  *)
(* a predicate with the matching connector, not negated, whose child list  *)
(* holds the operands' predicates in the order of ops; grouping the same   *)
(* operands differently gives a predicate with the same truth value on     *)
(* every row.                                                              *)
C15_ConnectiveKeepsOperandOrder ==
  (IsConnective /\ Len(Ops) >= 2 /\ \A i \in 1..Len(Ops) : GivesPredicate(Ops[i])) =>
    /\ call.outcome = "returned" /\ errors = NoErrors
    /\ call.q.kind = "Q" /\ ~call.q.neg
    /\ call.q.conn = (IF call.filter.l[1] = PyStr("and") THEN "AND" ELSE "OR")
    /\ call.q.ch = ChildrenInOrder(Ops, 1, call.q.conn)
    /\ Len(Ops) = 2 =>
         \A z \in {GoodTerm3, PyList(<<PyStr("not"), GoodTerm1>>)} :
           GroupingsAgree(call.filter.l[1], Ops[1], Ops[2], z)

(* 'or' of two different terms, the second reached through a relation *)
C15_Witness ==
  /\ IsConnective /\ call.filter.l[1] = PyStr("or")
  /\ Ops = <<GoodTerm1, GoodTerm2>>
  /\ call.q = QNode("OR", FALSE,
                    <<QLeaf("description__contains", PyStr("%a%")),
                      QLeaf("origin_pipeline__description__exact",
                            PyStr("Well described."))>>)

----------------------------------------------------------------------------
(* The order-by translator                                                 *)

(* C16: get_order_bys never returns None: what it returns is a list of     *)
(* strings, empty for an empty list of directives; when the directives are *)
(* absent (None) it returns exactly [primary_key] and records no error;    *)
(* through get_query_set the primary key is the one bound to the builder.  *)
C16_OrderBysDefaultToPrimaryKey ==
  /\ (call.op = "get_order_bys" /\ call.outcome = "returned") =>
       /\ \A i \in 1..Len(call.order_bys) : call.order_bys[i].t = "str"
       /\ call.order_by = PyList(<<>>) => call.order_bys = <<>>
       /\ call.order_by = PyNone =>
            call.order_bys = <<call.pk>> /\ errors = NoErrors
  /\ (call.op = "get_query_set" /\ call.outcome = "returned"
      /\ DictGet(call.has_order_by, call.order_by) = PyNone) =>
       /\ call.order_bys = <<PyStr(primary_key)>>
       /\ call.handle.order_bys = <<PyStr(primary_key)>>

(* no directives and a primary key other than the default, on an instance  *)
(* whose last call left errors                                             *)
C16_Witness ==
  /\ call.op = "get_order_bys" /\ call.order_by = PyNone
  /\ call.pk = PyStr("id")
  /\ before.errors # NoErrors
  /\ call.order_bys = <<PyStr("id")>>
  /\ errors = NoErrors

(* the directives of the last get_order_bys call, when they are a list *)
IsDirectiveList == call.op = "get_order_bys" /\ call.order_by.t = "list"

Given == call.order_by.l

AllStrings(d) == d.t = "list" /\ \A i \in 1..Len(d.l) : d.l[i].t = "str"

(* the direction of a directive, '' when it gives none *)
DirectionOf(d) == IF Len(d.l) = 1 THEN "" ELSE d.l[Len(d.l)].s

(* a directive of one of the three forms whose names are in the schema and *)
(* whose direction is in the direction table                               *)
ValidDirective(d) ==
  /\ AllStrings(d) /\ Len(d.l) \in 1..3
  /\ Lower(DirectionOf(d)) \in {"", "-", "desc", "descending", "asc", "ascending"}
  /\ Len(d.l) \in {1, 2} => d.l[1].s \in AttributesOf(model_name)
  /\ Len(d.l) = 3 =>
       /\ d.l[1].s \in ForeignAttributesOf(model_name)
       /\ d.l[2].s \in AttributesOf(schema[model_name][d.l[1].s].foreign_model)

DirectionPrefix(d) ==
  IF Lower(DirectionOf(d)) \in {"desc", "descending", "-"} THEN "-" ELSE ""

DirectivePath(d) ==
  IF Len(d.l) = 3 THEN d.l[1].s \o "__" \o d.l[2].s ELSE d.l[1].s

(* C17: for a list of valid directives get_order_bys returns one entry per *)
(* directive, in input order, each the direction prefix followed by the    *)
(* path: 'attr' or 'related_attr__attr', with '-' for 'desc',              *)
(* 'descending' and '-' and nothing for 'asc', 'ascending' and '', in any  *)
(* letter case; the error map stays empty.                                 *)
C17_ValidDirectivesTranslateInOrder ==
  (IsDirectiveList /\ \A i \in 1..Len(Given) : ValidDirective(Given[i])) =>
    /\ call.outcome = "returned"
    /\ Len(call.order_bys) = Len(Given)
    /\ \A i \in 1..Len(Given) :
         call.order_bys[i] = PyStr(DirectionPrefix(Given[i]) \o DirectivePath(Given[i]))
    /\ errors = NoErrors

(* two directives of different forms and directions *)
C17_Witness ==
  /\ IsDirectiveList
  /\ Given = <<Strs(<<"origin_pipeline", "uuid", "asc">>), Strs(<<"description", "desc">>)>>
  /\ call.order_bys = <<PyStr("origin_pipeline__uuid"), PyStr("-description")>>
  /\ errors = NoErrors

(* [related_attr, attr, dir] whose related_attr is a foreign attribute of  *)
(* the target model, whose dir is in the direction table and whose attr is *)
(* not in the schema of the related model                                  *)
UnknownSubAttribute(d) ==
  /\ AllStrings(d) /\ Len(d.l) = 3
  /\ Lower(DirectionOf(d)) \in {"", "-", "desc", "descending", "asc", "ascending"}
  /\ d.l[1].s \in ForeignAttributesOf(model_name)
  /\ d.l[2].s \notin AttributesOf(schema[model_name][d.l[1].s].foreign_model)

SubAttributeKey(d) == schema[model_name][d.l[1].s].foreign_model \o "." \o d.l[2].s

RECURSIVE EntriesOfValid(_, _)
(* the entries of the valid directives of ds, from the i-th on *)
EntriesOfValid(ds, i) ==
  IF i > Len(ds) THEN <<>>
  ELSE (IF ValidDirective(ds[i])
        THEN <<PyStr(DirectionPrefix(ds[i]) \o DirectivePath(ds[i]))>>
        ELSE <<>>) \o EntriesOfValid(ds, i + 1)

(* C18: a directive [related_attr, attr, dir] whose attr is not in the     *)
(* schema of the related model records the error key                       *)
(* '<RelatedModel>.<attr>' and contributes no entry to the list returned,  *)
(* while every valid directive of the same call contributes its entry.     *)
C18_UnknownSubAttributeGivesNoEntry ==
  (/\ IsDirectiveList
   /\ \A i \in 1..Len(Given) : ValidDirective(Given[i]) \/ UnknownSubAttribute(Given[i])
   /\ \E i \in 1..Len(Given) : UnknownSubAttribute(Given[i])) =>
    /\ call.outcome = "returned"
    /\ \A i \in 1..Len(Given) :
         UnknownSubAttribute(Given[i]) => SubAttributeKey(Given[i]) \in DOMAIN errors
    /\ call.order_bys = EntriesOfValid(Given, 1)

(* a directive that is a list of no or of more than three elements *)
WrongLength(d) == d.t = "list" /\ Len(d.l) \notin 1..3

(* the direction token of a directive of two or three elements *)
DirectionToken(d) == d.l[Len(d.l)]

(* a directive whose direction token is not in the direction table *)
UnknownDirection(d) ==
  /\ d.t = "list" /\ Len(d.l) \in {2, 3}
  /\ \/ DirectionToken(d).t # "str"
     \/ Lower(DirectionToken(d).s) \notin DOMAIN order_by_directions

ToSkip(d) == WrongLength(d) \/ UnknownDirection(d)

RECURSIVE Kept(_, _)
(* the directives of ds, from the i-th on, without those to skip *)
Kept(ds, i) ==
  IF i > Len(ds) THEN <<>>
  ELSE (IF ToSkip(ds[i]) THEN <<>> ELSE <<ds[i]>>) \o Kept(ds, i + 1)

(* C19: a directive that is a list of 0 or of more than 3 elements records *)
(* under the stringified directive 'Order by elements must be lists of 1,  *)
(* 2 or 3 elements', and a directive whose direction token is not in the   *)
(* direction table records an error under the raw token; such a directive  *)
(* adds no entry and the remaining directives are translated as without it. *)
C19_SkippedDirectiveRecordsError ==
  (IsDirectiveList /\ \E i \in 1..Len(Given) : ToSkip(Given[i])) =>
    /\ call.outcome = "returned"
    /\ \A i \in 1..Len(Given) :
         /\ WrongLength(Given[i]) =>
              /\ PyToStr(Given[i]) \in DOMAIN errors
              /\ errors[PyToStr(Given[i])]
                   = "Order by elements must be lists of 1, 2 or 3 elements"
         /\ UnknownDirection(Given[i]) =>
              PyToStr(DirectionToken(Given[i])) \in DOMAIN errors
    /\ call.order_bys
         = GetOrderBysPrivate(PyList(Kept(Given, 1)), call.pk, PyStr(model_name),
                              NoErrors).l

(* a directive of strings one of whose names fails its check: the direct   *)
(* attribute, the related attribute (unknown, or no foreign attribute) or  *)
(* the attribute of the related model                                      *)
UnknownAttribute(d) ==
  /\ AllStrings(d) /\ Len(d.l) \in {1, 2}
  /\ Lower(DirectionOf(d)) \in DOMAIN order_by_directions
  /\ d.l[1].s \notin AttributesOf(model_name)

RelatedNotInSchema(d) ==
  /\ AllStrings(d) /\ Len(d.l) = 3 /\ d.l[1].s # ""
  /\ Lower(DirectionOf(d)) \in DOMAIN order_by_directions
  /\ d.l[1].s \notin AttributesOf(model_name)

RelatedNotForeign(d) ==
  /\ AllStrings(d) /\ Len(d.l) = 3 /\ d.l[1].s # ""
  /\ Lower(DirectionOf(d)) \in DOMAIN order_by_directions
  /\ d.l[1].s \in AttributesOf(model_name) \ ForeignAttributesOf(model_name)

FailsNameCheck(d) ==
  \/ UnknownAttribute(d) \/ UnknownSubAttribute(d)
  \/ RelatedNotInSchema(d) \/ RelatedNotForeign(d)

(* C20: each of the three names of a directive is checked against the      *)
(* schema, and a failed check records an error and lets translation go on: *)
(* a call whose directives are valid or fail a name check returns, with an *)
(* error under '<Model>.<name>' for each failed check; in particular a     *)
(* related attribute that is not in the schema of the target model, or is  *)
(* no foreign attribute, does not end get_order_bys with an exception.     *)
C20_FailedNameCheckOnlyRecords ==
  (/\ IsDirectiveList
   /\ \A i \in 1..Len(Given) : ValidDirective(Given[i]) \/ FailsNameCheck(Given[i])
   /\ \E i \in 1..Len(Given) : FailsNameCheck(Given[i])) =>
    /\ call.outcome = "returned"
    /\ \A i \in 1..Len(Given) :
         /\ UnknownAttribute(Given[i]) =>
              model_name \o "." \o Given[i].l[1].s \in DOMAIN errors
         /\ UnknownSubAttribute(Given[i]) => SubAttributeKey(Given[i]) \in DOMAIN errors
         /\ (RelatedNotInSchema(Given[i]) \/ RelatedNotForeign(Given[i])) =>
              model_name \o "." \o Given[i].l[1].s \in DOMAIN errors

----------------------------------------------------------------------------
(* The target model of the builder                                         *)

(* the last call was given a simple term of four or five elements whose    *)
(* names are strings, and accepted it: it returned a predicate and left no *)
(* error                                                                   *)
AcceptedTerm ==
  /\ call.op \in {"get_query_expression", "get_query_set"}
  /\ call.has_filter /\ call.filter.t = "list"
  /\ Len(call.filter.l) \in {4, 5}
  /\ \A i \in 1..(Len(call.filter.l) - 2) : call.filter.l[i].t = "str"
  /\ call.filter.l[1] \notin {PyStr("and"), PyStr("or"), PyStr("not")}
  /\ call.outcome = "returned" /\ call.q # NoQ /\ errors = NoErrors

(* the names of the term resolve in the schema of the model m, directly or *)
(* one hop away                                                            *)
ResolvesIn(m) ==
  /\ Term[2].s \in AttributesOf(m)
  /\ Len(Term) = 5 =>
       /\ Term[2].s \in ForeignAttributesOf(m)
       /\ Term[3].s \in AttributesOf(schema[m][Term[2].s].foreign_model)

(* C21: every attribute named in a term that a QueryBuilder accepts        *)
(* without error resolves to a schema entry of the builder's target model  *)
(* or of the model one hop away from it; a term naming a registered model  *)
(* other than the target model is not turned into a predicate over the     *)
(* target model.                                                           *)
C21_AttributesResolveInTargetModel ==
  AcceptedTerm => (Term[1].s = model_name /\ ResolvesIn(model_name))

----------------------------------------------------------------------------
(* Value converters                                                        *)

(* the terminal attribute of the term has a value converter *)
HasConverter ==
  AttributeRegistered /\ schema[TermModel][TermAttribute].value_converter # ""

(* the converter rejects the element v of the normalized value *)
Rejected(v) == v # PyNone /\ DatetimeString2Datetime(v) = PyNone

(* what the converter makes of v *)
ConvertedElement(v) == IF v = PyNone THEN PyNone ELSE DatetimeString2Datetime(v)

(* the elements the converter is applied to: those of a list, or the value *)
ConverterInputs ==
  IF TermValue.t = "list" THEN Normalize(TermValue).l ELSE <<Normalize(TermValue)>>

RejectedKeys ==
  {"datetime " \o PyToStr(ConverterInputs[i]) :
     i \in {j \in 1..Len(ConverterInputs) : Rejected(ConverterInputs[j])}}

(* C26: for an attribute with a value converter, a value other than None   *)
(* that the converter rejects records the error describing the ISO 8601    *)
(* format and the converted value is None; None is passed through with no  *)
(* error; the converter is applied to each element of a list, one error    *)
(* being recorded per rejected element, under the key of that element.     *)
C26_ConverterRecordsRejectedValues ==
  HasConverter =>
    /\ call.outcome = "returned" /\ call.q.kind = "Q" /\ Len(call.q.ch) = 1
    /\ TermValue.t # "list" =>
         call.q.ch[1].val = ConvertedElement(Normalize(TermValue))
    /\ TermValue.t = "list" =>
         call.q.ch[1].val
           = PyList([i \in 1..Len(ConverterInputs) |->
                       ConvertedElement(ConverterInputs[i])])
    /\ \A k \in RejectedKeys :
         /\ k \in DOMAIN errors
         /\ errors[k]
              = "Datetime search parameters must be valid ISO 8601 datetime strings."
    /\ TermRegistered => DOMAIN errors = RejectedKeys

(* a list with a datetime, two rejected strings and None *)
C26_Witness ==
  /\ HasConverter /\ TermRegistered
  /\ TermValue.t = "list" /\ Len(TermValue.l) = 4
  /\ call.q.ch[1].val
       = PyList(<<PyDatetime("2018-01-01T00:00:00"), PyNone, PyNone, PyNone>>)
  /\ DOMAIN errors = {"datetime yesterday", "datetime cafe(U+0301)"}

----------------------------------------------------------------------------
(* Accumulation over the operands of a connective                          *)

(* the keys the evaluation of the operand x records on its own *)
KeysOf(x) == DOMAIN Python2QueryExpr(x, NoErrors).e

(* C27: within ['and', ops] or ['or', ops] every operand is evaluated      *)
(* before the reduction starts, an error in one operand not preventing the *)
(* evaluation of its siblings: after the call the error map holds the keys *)
(* of the errors of all the invalid operands, not only of the first.       *)
C27_ErrorsOfAllOperandsRecorded ==
  IsConnective =>
    /\ call.outcome = "returned"
    /\ \A i \in 1..Len(Ops) : KeysOf(Ops[i]) \subseteq DOMAIN errors

----------------------------------------------------------------------------
(* A foreign attribute compared with a value other than None               *)

(* the terminal attribute declares a foreign_model and the term compares   *)
(* it, with '=' or '!=', with a value other than None                      *)
ForeignCompared ==
  /\ AttributeRegistered /\ TermForeign
  /\ TermRelation \in {"=", "!="} /\ TermValue # PyNone

----------------------------------------------------------------------------
(* The route table                                                         *)

(* the builder was constructed and register_routes_for_resources called on *)
(* it                                                                      *)
ResourcesRegistered ==
  registered # <<>> /\ registered[1].op = "register_routes_for_resources"

(* no route has been registered since *)
OnlyResourcesRegistered ==
  /\ ResourcesRegistered
  /\ \A k \in 2..Len(registered) : registered[k].op = "get_urlpatterns"

(* the items of the resources_ dict of that call *)
Items == registered[1].resources

IsSearchable(item) == item[2].searchable # "False"

PkOf(item) == IF item[2].pk_patt = "" THEN UUID_PATT ELSE item[2].pk_patt

(* the collection name of an item: the names of the configurations *)
CollectionOf(item) ==
  CASE item[1] = "location" -> "locations" [] item[1] = "package" -> "packages"
    [] item[1] = "space" -> "spaces" [] item[1] = "pipeline" -> "pipelines"

ClassOf(item) ==
  CASE item[1] = "location" -> "Locations" [] item[1] = "package" -> "Packages"
    [] item[1] = "space" -> "Spaces" [] item[1] = "pipeline" -> "Pipelines"

CollectionRegex(item) == "^" \o CollectionOf(item) \o "/$"
MemberRegex(item) == "^" \o CollectionOf(item) \o "/(?P<pk>" \o PkOf(item) \o ")/$"
EditRegex(item) == "^" \o CollectionOf(item) \o "/(?P<pk>" \o PkOf(item) \o ")/edit/$"
NewRegex(item) == "^" \o CollectionOf(item) \o "/new/$"
NewSearchRegex(item) == "^" \o CollectionOf(item) \o "/new_search/$"
SearchRegex(item) == "^" \o CollectionOf(item) \o "/search/$"

StandardRegexes(item) ==
  {CollectionRegex(item), MemberRegex(item), EditRegex(item), NewRegex(item)}

SearchRegexes(item) == {NewSearchRegex(item), SearchRegex(item)}

(* the table holds regex with exactly the methods of actions, a record     *)
(* HTTP method -> action, all of the class of the item                     *)
Holds(item, regex, actions) ==
  /\ regex \in Regexes(routes)
  /\ DOMAIN ConfigOf(routes, regex).http_methods = DOMAIN actions
  /\ \A m \in DOMAIN actions :
       ConfigOf(routes, regex).http_methods[m] = <<ClassOf(item), actions[m]>>

(* the last call on the builder kept every method the table held: under    *)
(* each regex it found, each method is still there, with the same class    *)
(* and action unless the call registered that method under that regex      *)
MethodsKept ==
  registered # <<>> =>
    \A regex \in Regexes(registered[Len(registered)].found) :
      /\ regex \in Regexes(routes)
      /\ \A m \in DOMAIN ConfigOf(registered[Len(registered)].found, regex).http_methods :
           /\ m \in DOMAIN ConfigOf(routes, regex).http_methods
           /\ (registered[Len(registered)].op = "register_route"
               /\ ~(regex = registered[Len(registered)].route.regex
                    /\ m = registered[Len(registered)].route.http_method))
              => ConfigOf(routes, regex).http_methods[m]
                   = ConfigOf(registered[Len(registered)].found, regex).http_methods[m]

(* the route of the last register_route is in the table *)
RouteAdded ==
  (registered # <<>> /\ registered[Len(registered)].op = "register_route") =>
    /\ registered[Len(registered)].route.regex \in Regexes(routes)
    /\ registered[Len(registered)].route.http_method
         \in DOMAIN ConfigOf(routes, registered[Len(registered)].route.regex).http_methods
    /\ ConfigOf(routes, registered[Len(registered)].route.regex)
         .http_methods[registered[Len(registered)].route.http_method]
         = <<registered[Len(registered)].route.class_name,
             registered[Len(registered)].route.method_name>>

(* the list get_urlpatterns just returned has one url per regex of the     *)
(* table                                                                   *)
OneUrlPerRegex ==
  UrlsTaken =>
    /\ Len(urlpatterns) = Cardinality(Regexes(routes))
    /\ {urlpatterns[i].regex : i \in 1..Len(urlpatterns)} = Regexes(routes)
    /\ \A i \in 1..Len(urlpatterns) :
         urlpatterns[i].name = ConfigOf(routes, urlpatterns[i].regex).route_name

(* C22: after register_routes_for_resources the route table of each        *)
(* searchable resource with collection name c holds exactly six regex      *)
(* entries: '^c/$' with GET index, POST create, SEARCH search; the member  *)
(* regex with GET show, PUT update, DELETE delete; the edit regex with GET *)
(* edit; '^c/new/$' with GET new; '^c/new_search/$' with GET new_search;   *)
(* '^c/search/$' with POST search. Registering a route under a regex that  *)
(* exists adds its HTTP method and removes none, and get_urlpatterns       *)
(* returns one url per regex.                                              *)
C22_RouteTableOfSearchableResource ==
  /\ OnlyResourcesRegistered =>
       /\ Regexes(routes)
            = UNION {StandardRegexes(Items[i])
                       \cup (IF IsSearchable(Items[i]) THEN SearchRegexes(Items[i])
                             ELSE {}) : i \in 1..Len(Items)}
       /\ \A i \in 1..Len(Items) :
            IsSearchable(Items[i]) =>
              /\ Holds(Items[i], CollectionRegex(Items[i]),
                       [GET |-> "index", POST |-> "create", SEARCH |-> "search"])
              /\ Holds(Items[i], MemberRegex(Items[i]),
                       [GET |-> "show", PUT |-> "update", DELETE |-> "delete"])
              /\ Holds(Items[i], EditRegex(Items[i]), [GET |-> "edit"])
              /\ Holds(Items[i], NewRegex(Items[i]), [GET |-> "new"])
              /\ Holds(Items[i], NewSearchRegex(Items[i]), [GET |-> "new_search"])
              /\ Holds(Items[i], SearchRegex(Items[i]), [POST |-> "search"])
  /\ MethodsKept
  /\ RouteAdded
  /\ OneUrlPerRegex

(* the configuration of test_urls_construction registered, then a PATCH    *)
(* route added under '^packages/$', then the urls taken                    *)
C22_Witness ==
  /\ Len(registered) = 3 /\ ResourcesRegistered /\ Items = TestResources
  /\ registered[2].op = "register_route"
  /\ registered[3].op = "get_urlpatterns"
  /\ Len(urlpatterns) = 22
  /\ DOMAIN ConfigOf(routes, "^packages/$").http_methods
       = {"GET", "POST", "SEARCH", "PATCH"}
  /\ ConfigOf(routes, "^locations/$").http_methods
       = [GET |-> <<"Locations", "index">>, POST |-> <<"Locations", "create">>,
          SEARCH |-> <<"Locations", "search">>]

(* C23: a resource configured with 'searchable': False gets none of the    *)
(* search routes: the table has no '^c/search/$' and no '^c/new_search/$'  *)
(* entry for it and no SEARCH method under '^c/$', while its seven         *)
(* standard routes are there, and so are the search routes of every other  *)
(* resource registered in the same call.                                   *)
C23_UnsearchableResourceHasNoSearchRoutes ==
  OnlyResourcesRegistered =>
    \A i \in 1..Len(Items) :
      /\ ~IsSearchable(Items[i]) =>
           /\ SearchRegex(Items[i]) \notin Regexes(routes)
           /\ NewSearchRegex(Items[i]) \notin Regexes(routes)
           /\ Holds(Items[i], CollectionRegex(Items[i]),
                    [GET |-> "index", POST |-> "create"])
           /\ Holds(Items[i], MemberRegex(Items[i]),
                    [GET |-> "show", PUT |-> "update", DELETE |-> "delete"])
           /\ Holds(Items[i], EditRegex(Items[i]), [GET |-> "edit"])
           /\ Holds(Items[i], NewRegex(Items[i]), [GET |-> "new"])
      /\ IsSearchable(Items[i]) =>
           /\ "SEARCH" \in DOMAIN ConfigOf(routes, CollectionRegex(Items[i])).http_methods
           /\ ConfigOf(routes, CollectionRegex(Items[i])).http_methods["SEARCH"]
                = <<ClassOf(Items[i]), "search">>
           /\ Holds(Items[i], NewSearchRegex(Items[i]), [GET |-> "new_search"])
           /\ Holds(Items[i], SearchRegex(Items[i]), [POST |-> "search"])

(* the spaces are not searchable, the packages registered with them are *)
C23_Witness ==
  /\ OnlyResourcesRegistered /\ Len(Items) = 2
  /\ Items[1] = <<"space", RsrcConfig("False", "")>>
  /\ Items[2][1] = "package" /\ IsSearchable(Items[2])
  /\ "^spaces/search/$" \notin Regexes(routes)
  /\ "^spaces/new_search/$" \notin Regexes(routes)
  /\ DOMAIN ConfigOf(routes, "^spaces/$").http_methods = {"GET", "POST"}
  /\ "^packages/search/$" \in Regexes(routes)
  /\ Cardinality(Regexes(routes)) = 10

----------------------------------------------------------------------------
(* The request dispatcher                                                  *)

(* a request has been served; MethodRegistered = its HTTP method is        *)
(* registered under the regex that matched                                 *)
Served == served > 0

MethodRegistered == response.method \in DOMAIN response.http_methods

(* the class the route names is one of resources.py *)
ClassDefined == response.http_methods[response.method][1] \in ResourceClasses

(* an action method of the resource instance was called *)
ActionCalled == Len(response.events) > 2

(* C28: the dispatcher calls an action method only when the HTTP method of *)
(* the request is registered under the matched regex and the               *)
(* authentication returned True. A method that is not registered gets 405, *)
(* whatever the authentication would say and without authenticating; a     *)
(* registered method whose authentication does not return True gets 403    *)
(* from the view of a resource class of resources.py (the class is looked  *)
(* up and instantiated before the authentication); in neither case is an   *)
(* action method called.                                                   *)
C28_ActionOnlyWhenRegisteredAndAuthenticated ==
  Served =>
    /\ ActionCalled =>
         /\ MethodRegistered /\ response.auth_result = "True"
         /\ response.events
              = <<"__init__", "is_authenticated",
                  response.http_methods[response.method][2]>>
    /\ ~MethodRegistered =>
         /\ response.outcome = "returned"
         /\ response.status = 405
         /\ response.body.accepted = DOMAIN response.http_methods
         /\ response.events = <<>>
    /\ (MethodRegistered /\ ClassDefined /\ response.auth_result # "True") =>
         /\ response.outcome = "returned"
         /\ response.status = 403
         /\ response.body = UNAUTHORIZED_MSG
         /\ response.events = <<"__init__", "is_authenticated">>
    /\ (MethodRegistered /\ ~ClassDefined) =>
         response.outcome = "escaped" /\ response.events = <<>>

(* a registered SEARCH on the packages whose authentication returned the   *)
(* response of a backend instead of True                                   *)
C28_Witness ==
  /\ Served /\ response.regex = "^packages/$" /\ response.method = "SEARCH"
  /\ response.auth_result = "HttpUnauthorized"
  /\ response.status = 403
  /\ response.events = <<"__init__", "is_authenticated">>

----------------------------------------------------------------------------
(* The views                                                               *)

(* what get_query_set of the query builder of the instance does with the   *)
(* query of the search request served                                      *)
BuilderEnded ==
  GetQuerySet(view.request.has_filter, view.request.filter,
              view.request.has_order_by, view.request.order_by,
              view.model, "uuid", NoErrors)

(* the search request served had a query for which the query builder       *)
(* raised SearchParseError                                                 *)
SearchRaised ==
  /\ view.op = "search" /\ view.request.json /\ view.request.has_query
  /\ BuilderEnded.outcome = "raised"

(* C25: when the query builder raises SearchParseError for a search        *)
(* request, the search action answers with status 400 and a body carrying, *)
(* under 'errors', the full error map of the exception, and does not go on *)
(* to eager-load, filter or paginate a query set.                          *)
C25_SearchAnswersParseErrorWith400 ==
  SearchRaised =>
    /\ view.outcome = "returned"
    /\ view.status = 400
    /\ view.errors = BuilderEnded.raised
    /\ view.steps = <<"get_query_set">>

(* the ordering parameters of the index request served, and what           *)
(* get_order_bys gives for the directive they make                         *)
IndexDirective ==
  SelectSeq(<<view.request.order_by_attribute, view.request.order_by_subattribute,
              view.request.order_by_direction>>,
            Truthy)

IndexKeys ==
  GetOrderBys(PyList(<<PyList(IndexDirective)>>), PyStr("uuid"), view.model, NoErrors)

(* C29: add_order_by, as the index action uses it, orders the query set by *)
(* the keys get_order_bys returns for the order_by_attribute,              *)
(* order_by_subattribute and order_by_direction of the request: those keys *)
(* are the arguments of order_by; a request with no ordering parameter is  *)
(* ordered by the primary key of the resource, ascending.                  *)
C29_IndexOrdersByKeysOrPrimaryKey ==
  view.op = "index" =>
    /\ IndexDirective # <<>> => view.order_by_args = IndexKeys.order_bys
    /\ IndexDirective = <<>> => view.order_by_args = <<PyStr("uuid")>>

----------------------------------------------------------------------------
(* The error accumulator under concurrent calls                            *)

(* how the call of the thread t ends on an instance no other call uses *)
Alone(t) ==
  GetQuerySet(threads[t].query.has_filter, threads[t].query.filter,
              threads[t].query.has_order_by, threads[t].query.order_by,
              model_name, primary_key, NoErrors)

(* the keys of the errors the query of the thread t records *)
OwnKeys(t) ==
  IF Alone(t).outcome = "raised" THEN DOMAIN Alone(t).raised ELSE DOMAIN Alone(t).e

Finished(t) == threads[t].pc = "done"

(* the call of t ended as it does alone *)
EndedAsAlone(t) ==
  /\ threads[t].outcome = Alone(t).outcome
  /\ threads[t].exc = Alone(t).exc
  /\ threads[t].raised = Alone(t).raised
  /\ threads[t].handle = Alone(t).handle

(* the query of t is invalid, and yet its call went on to the store *)
InvalidStored(t) ==
  /\ Finished(t) /\ Alone(t).outcome = "raised"
  /\ threads[t].outcome = "returned" /\ threads[t].handle # NoHandle

(* the query of t is valid, and yet its call raised SearchParseError, with *)
(* errors of the other call                                                *)
ValidRaised(t) ==
  /\ Finished(t) /\ Alone(t).outcome = "returned"
  /\ threads[t].outcome = "raised"
  /\ threads[t].raised # NoErrors
  /\ DOMAIN threads[t].raised \subseteq OwnKeys(Other(t))

(* C24: the error accumulator is not safe for concurrent reuse. A          *)
(* get_query_set call within which no step of another call on the same    *)
(* instance falls ends as it does alone; two calls that interleave can end *)
(* otherwise: a call with an invalid query finds the map emptied by the    *)
(* clear_errors of the other call and goes on to build its query against   *)
(* the store, a call with a valid query raises SearchParseError carrying   *)
(* errors the other call recorded. A call that raises carries only keys    *)
(* that its own query or the query of the other call records, and a call   *)
(* that reaches the store builds its own query.                            *)
C24_AccumulatorUnsafeOnlyWhenInterleaved ==
  \A t \in Threads :
    Finished(t) =>
      /\ ~threads[t].overlapped => EndedAsAlone(t)
      /\ (InvalidStored(t) \/ ValidRaised(t)) => threads[t].overlapped
      /\ threads[t].outcome = "raised" =>
           DOMAIN threads[t].raised \subseteq OwnKeys(t) \cup OwnKeys(Other(t))
      /\ threads[t].outcome = "returned" =>
           /\ threads[t].handle.q
                = GetQueryExpressionPrivate(
                    DictGet(threads[t].query.has_filter, threads[t].query.filter),
                    NoErrors).q
           /\ Alone(t).outcome = "returned" => threads[t].handle = Alone(t).handle

(* both in one run: the call of thread 1, whose filter names an unknown    *)
(* attribute, reached the store, and the call of thread 2, whose query is  *)
(* valid, raised SearchParseError with the error of that attribute         *)
C24_Witness ==
  /\ threads[1].query.filter = BadAttributeTerm
  /\ InvalidStored(1)
  /\ ValidRaised(2)
  /\ "Package.gonzo" \in DOMAIN threads[2].raised
====
